---- MODULE Spec2Model ----
(***************************************************************************)
(* A model of the lessons-learned backend: the JSON recovery parser and    *)
(* the text-generation call of lessons/ai.py and the spreadsheet           *)
(* importers, header resolver and field classifiers of lessons/parsers.py. *)
(*                                                                         *)
(* Python strings are sequences of one-character strings.  Python indices  *)
(* are 0-based; variables that hold a Python index (pos, column indices)   *)
(* keep the Python value, and the operators add 1 when they index a        *)
(* sequence.                                                               *)
(***************************************************************************)
EXTENDS Integers, Sequences, FiniteSets, TLC

VARIABLES
  inp,       \* the response under analysis: which document, where it was cut, how it is fenced
  text,      \* _parse_json_response: the argument
  clean,     \* _parse_json_response: text without fences, stripped
  repaired,  \* _parse_json_response: the text being repaired
  pos,       \* _parse_json_response: the walk-back position (Python index)
  pc,        \* _parse_json_response: the position in the function
  result,    \* _parse_json_response: the returned value
  headers,   \* find_col: the header row
  terms,     \* find_col: the candidate terms, in order
  col,       \* find_col: the returned column index
  fpc,       \* find_col: the position in the function
  raw,       \* map_severity, map_discipline: the argument
  severity,  \* map_severity: the returned severity
  discipline, \* map_discipline: the returned discipline
  cpc,       \* map_severity, map_discipline: the position in the call
  kind,      \* the importer called: "xlsx" (parse_xlsx) or "csv" (parse_csv)
  wb,        \* parse_xlsx: the workbook, its worksheets in order, each a title and its rows
  sheet,     \* parse_xlsx: the position (from 1) of the chosen worksheet; 0 for none
  rows,      \* parse_xlsx, parse_csv: the rows of the sheet or file, the header row first
  raw_headers, \* parse_xlsx, parse_csv: the normalised header row
  col_map,   \* parse_xlsx, parse_csv: canonical field -> column index, -1 for none
  row_i,     \* parse_xlsx, parse_csv: the number (from 1) of the next row of rows
  lessons,   \* parse_xlsx, parse_csv: the records emitted so far
  error,     \* parse_xlsx, parse_csv: the returned error
  ipc,       \* parse_xlsx, parse_csv: the position in the function
  api_key,   \* _call_anthropic: settings.ANTHROPIC_API_KEY ("" when not configured)
  resp,      \* _call_anthropic: the HTTP response: status, body text, decoded JSON body
  data,      \* _call_anthropic: resp.json()
  text_parts, \* _call_anthropic: the texts of the text blocks
  reply,     \* _call_anthropic: the returned text, or the message of the raised ValueError
  apc,       \* _call_anthropic: the position in the function
  analyses,  \* the SOWAnalysis table: the results document of each analysis, by id
  request,  \* the requests in progress: view and arguments
  spc,  \* each request's position in its view
  loaded,  \* generate_deliverable: the results of the analysis as the view loaded them
  posts,  \* each request's number of posts to the text-generation service
  outcome,  \* each request's text-generation call: how it ended, and the text
  content,  \* what the function of ai.py returned or raised to the view
  response,  \* each request's HTTP response
  upload,  \* import_file: the request
  lesson_table,  \* the Lesson table: the rows created, in order
  created,  \* import_file: the number of records created so far
  answer,  \* import_file: the HTTP response
  upc,  \* import_file: the position in the view
  bulk,  \* bulk_delete: the requests in progress: the user and the ids argument
  bpc,  \* bulk_delete: each request's position in the view
  found,  \* bulk_delete: the ids the queryset gave
  count,  \* bulk_delete: qs.count()
  bulk_reply   \* bulk_delete: each request's HTTP response

jsonVars == <<inp, text, clean, repaired, pos, pc, result>>
colVars == <<headers, terms, col, fpc>>
classVars == <<raw, severity, discipline, cpc>>

importVars == <<kind, wb, sheet, rows, raw_headers, col_map, row_i, lessons, error, ipc>>

callVars == <<api_key, resp, data, text_parts, reply, apc>>

serveVars == <<analyses, request, spc, loaded, posts, outcome, content, response>>

uploadVars == <<upload, lesson_table, created, answer, upc>>

bulkVars == <<bulk, bpc, found, count, bulk_reply>>

vars == <<jsonVars, colVars, classVars, importVars, callVars, serveVars, uploadVars, bulkVars>>

----------------------------------------------------------------------------
(* Python str operations *)

Q == "\""
BS == "\\"
NL == "\n"
\* the backtick, which a TLA+ string cannot spell
BT == "<backtick>"

\* str.isspace() characters of the modelled alphabet (str.strip() with no argument)
PyWhitespace == {" ", "\t", "\n", "\r"}

Min(a, b) == IF a < b THEN a ELSE b

\* s[i:] for a Python index i >= 0
From(s, i) == SubSeq(s, i + 1, Len(s))

\* s[:i] for a Python index i >= 0
Upto(s, i) == SubSeq(s, 1, Min(i, Len(s)))

\* s.startswith(p)
StartsWith(s, p) == Len(p) <= Len(s) /\ SubSeq(s, 1, Len(p)) = p

\* s.startswith(p, i): p occurs in s at Python index i
OccursAt(s, p, i) == i + Len(p) <= Len(s) /\ SubSeq(s, i + 1, i + Len(p)) = p

\* p in s
Contains(s, p) == \E i \in 0..(Len(s) - Len(p)) : OccursAt(s, p, i)

\* s[i:] with every non-overlapping occurrence of p, left to right, removed
RECURSIVE ReplaceFrom(_, _, _)
ReplaceFrom(s, p, i) ==
  LET hits == {j \in i..(Len(s) - Len(p)) : OccursAt(s, p, j)}
  IN IF hits = {} THEN From(s, i)
     ELSE LET j == CHOOSE h \in hits : \A g \in hits : h <= g
          IN SubSeq(s, i + 1, j) \o ReplaceFrom(s, p, j + Len(p))

\* s.replace(p, ""): every non-overlapping occurrence of p, left to right, removed
Remove(s, p) == ReplaceFrom(s, p, 0)

RECURSIVE LStripChars(_, _)
LStripChars(s, cs) ==
  IF s # <<>> /\ Head(s) \in cs THEN LStripChars(Tail(s), cs) ELSE s

RECURSIVE RStripChars(_, _)
RStripChars(s, cs) ==
  IF s # <<>> /\ s[Len(s)] \in cs THEN RStripChars(SubSeq(s, 1, Len(s) - 1), cs) ELSE s

\* s.strip(), s.rstrip(), s.rstrip(",")
Strip(s) == LStripChars(RStripChars(s, PyWhitespace), PyWhitespace)
RStrip(s) == RStripChars(s, PyWhitespace)
RStripComma(s) == RStripChars(s, {","})

\* s.count(c) for a one-character c
Count(s, c) == Cardinality({i \in 1..Len(s) : s[i] = c})

\* s.rfind(c, 0, hi) for a one-character c: the highest Python index below hi, or -1
RFind(s, c, hi) ==
  LET hits == {i \in 0..(Min(hi, Len(s)) - 1) : s[i + 1] = c}
  IN IF hits = {} THEN -1 ELSE CHOOSE i \in hits : \A j \in hits : j <= i

----------------------------------------------------------------------------
(* json.loads: Python's json decoder (strict mode) on the modelled alphabet. *)
(* A decoded value is a record: t the kind, s the characters of a string,    *)
(* number or literal, k the keys and v the values of an object (in order of  *)
(* first insertion, as a dict keeps them) or v the items of an array.        *)

JStr(s) == [t |-> "str", s |-> s, k |-> <<>>, v |-> <<>>]
JNum(s) == [t |-> "num", s |-> s, k |-> <<>>, v |-> <<>>]
JLit(s) == [t |-> "lit", s |-> s, k |-> <<>>, v |-> <<>>]
JArr(v) == [t |-> "arr", s |-> <<>>, k |-> <<>>, v |-> v]
JObj(k, v) == [t |-> "obj", s |-> <<>>, k |-> k, v |-> v]

\* Python's None, which json.loads gives for the literal null
None == JLit(<<"n", "u", "l", "l">>)

\* the outcome of a decoding step: ok with the value and the next Python index, or not ok
Good(val, nxt) == [ok |-> TRUE, val |-> val, nxt |-> nxt]
Bad == [ok |-> FALSE, val |-> JLit(<<>>), nxt |-> 0]

\* json.decoder.WHITESPACE: [ \t\n\r]*
JsonWs == {" ", "\t", "\n", "\r"}

Digits == {"0", "1", "2", "3", "4", "5", "6", "7", "8", "9"}
HexDigits == Digits \cup {"a", "b", "c", "d", "e", "f", "A", "B", "C", "D", "E", "F"}

\* the character at Python index i, or "" past the end
At(s, i) == IF i >= 0 /\ i < Len(s) THEN s[i + 1] ELSE ""

RECURSIVE SkipWs(_, _)
SkipWs(s, i) == IF At(s, i) \in JsonWs THEN SkipWs(s, i + 1) ELSE i

RECURSIVE SkipDigits(_, _)
SkipDigits(s, i) == IF At(s, i) \in Digits THEN SkipDigits(s, i + 1) ELSE i

\* U+0008, which a TLA+ string cannot spell
Backspace == "^H"

\* the characters below U+0020 of the modelled alphabet, which a strict string rejects
ControlChars == {"\n", "\t", "\r", "\f", Backspace}

\* json.decoder.BACKSLASH
Unescape(c) ==
  CASE c = "b" -> Backspace
    [] c = "f" -> "\f"
    [] c = "n" -> "\n"
    [] c = "r" -> "\r"
    [] c = "t" -> "\t"
    [] OTHER -> c

\* json.decoder.py_scanstring: i is the index after the opening quote
RECURSIVE ScanString(_, _, _)
ScanString(s, i, acc) ==
  LET c == At(s, i)
  IN CASE c = "" -> Bad
       [] c = Q -> Good(JStr(acc), i + 1)
       [] c \in ControlChars -> Bad
       [] c = BS ->
            LET e == At(s, i + 1)
            IN IF e \in {Q, BS, "/", "b", "f", "n", "r", "t"}
                 THEN ScanString(s, i + 2, Append(acc, Unescape(e)))
               ELSE IF e = "u" /\ \A d \in 2..5 : At(s, i + d) \in HexDigits
                 THEN ScanString(s, i + 6, acc \o <<BS, "u">> \o SubSeq(s, i + 3, i + 6))
               ELSE Bad
       [] OTHER -> ScanString(s, i + 1, Append(acc, c))

\* json.scanner.NUMBER_RE: (-?(?:0|[1-9]\d*))(\.\d+)?([eE][-+]?\d+)?
\* the index after the longest match at i, or i when there is none
NumberEnd(s, i) ==
  LET j0 == IF At(s, i) = "-" THEN i + 1 ELSE i
      j1 == IF At(s, j0) = "0" THEN j0 + 1
            ELSE IF At(s, j0) \in Digits THEN SkipDigits(s, j0 + 1)
            ELSE i
      j2 == IF At(s, j1) = "." /\ At(s, j1 + 1) \in Digits
              THEN SkipDigits(s, j1 + 2) ELSE j1
      k  == IF At(s, j2 + 1) \in {"+", "-"} THEN j2 + 2 ELSE j2 + 1
      j3 == IF At(s, j2) \in {"e", "E"} /\ At(s, k) \in Digits
              THEN SkipDigits(s, k + 1) ELSE j2
  IN IF j1 = i THEN i ELSE j3

Literals ==
  << <<"n", "u", "l", "l">>, <<"t", "r", "u", "e">>, <<"f", "a", "l", "s", "e">> >>

LateLiterals ==
  << <<"N", "a", "N">>, <<"I", "n", "f", "i", "n", "i", "t", "y">>,
     <<"-", "I", "n", "f", "i", "n", "i", "t", "y">> >>

\* dict[key] = value: a repeated key keeps its place and takes the new value
DictSet(o, key, val) ==
  IF \E n \in 1..Len(o.k) : o.k[n] = key
    THEN LET n == CHOOSE m \in 1..Len(o.k) : o.k[m] = key
         IN JObj(o.k, [o.v EXCEPT ![n] = val])
    ELSE JObj(Append(o.k, key), Append(o.v, val))

RECURSIVE ScanOnce(_, _)
RECURSIVE ObjectPairs(_, _, _)
RECURSIVE ArrayItems(_, _, _)

\* json.decoder.JSONObject, from the key's opening quote at index i on
ObjectPairs(s, i, acc) ==
  IF At(s, i) # Q THEN Bad
  ELSE LET key == ScanString(s, i + 1, <<>>)
       IN IF ~key.ok THEN Bad
          ELSE LET c == SkipWs(s, key.nxt)
               IN IF At(s, c) # ":" THEN Bad
                  ELSE LET val == ScanOnce(s, SkipWs(s, c + 1))
                       IN IF ~val.ok THEN Bad
                          ELSE LET e == SkipWs(s, val.nxt)
                                   o == DictSet(acc, key.val.s, val.val)
                               IN IF At(s, e) = "}" THEN Good(o, e + 1)
                                  ELSE IF At(s, e) = ","
                                    THEN ObjectPairs(s, SkipWs(s, e + 1), o)
                                  ELSE Bad

\* json.decoder.JSONArray, from the first character of an item at index i on
ArrayItems(s, i, acc) ==
  LET val == ScanOnce(s, i)
  IN IF ~val.ok THEN Bad
     ELSE LET e == SkipWs(s, val.nxt)
              a == Append(acc, val.val)
          IN IF At(s, e) = "]" THEN Good(JArr(a), e + 1)
             ELSE IF At(s, e) = "," THEN ArrayItems(s, SkipWs(s, e + 1), a)
             ELSE Bad

\* json.scanner.py_make_scanner._scan_once
ScanOnce(s, i) ==
  LET c == At(s, i)
  IN CASE c = "" -> Bad
       [] c = Q -> ScanString(s, i + 1, <<>>)
       [] c = "{" ->
            LET j == SkipWs(s, i + 1)
            IN IF At(s, j) = "}" THEN Good(JObj(<<>>, <<>>), j + 1)
               ELSE ObjectPairs(s, j, JObj(<<>>, <<>>))
       [] c = "[" ->
            LET j == SkipWs(s, i + 1)
            IN IF At(s, j) = "]" THEN Good(JArr(<<>>), j + 1)
               ELSE ArrayItems(s, j, <<>>)
       [] OTHER ->
            IF \E n \in 1..Len(Literals) : OccursAt(s, Literals[n], i)
              THEN LET n == CHOOSE m \in 1..Len(Literals) : OccursAt(s, Literals[m], i)
                   IN Good(JLit(Literals[n]), i + Len(Literals[n]))
            ELSE IF NumberEnd(s, i) # i
              THEN Good(JNum(SubSeq(s, i + 1, NumberEnd(s, i))), NumberEnd(s, i))
            ELSE IF \E n \in 1..Len(LateLiterals) : OccursAt(s, LateLiterals[n], i)
              THEN LET n == CHOOSE m \in 1..Len(LateLiterals) : OccursAt(s, LateLiterals[m], i)
                   IN Good(JLit(LateLiterals[n]), i + Len(LateLiterals[n]))
            ELSE Bad

\* json.loads(s): ok and the value, or not ok for a JSONDecodeError
Loads(s) ==
  LET r == ScanOnce(s, SkipWs(s, 0))
  IN IF r.ok /\ SkipWs(s, r.nxt) = Len(s) THEN r ELSE Bad

----------------------------------------------------------------------------
(* The responses _parse_json_response is run on: a well-formed document, *)
(* wrapped in a code fence or not, cut off after any number of characters *)
(* (the token limit), or not cut at all.                                  *)

\* the largest number of elements of a document's array field
MaxElems == 2

ElemA == <<"{", Q, "a", Q, ":", "1", "}">>
ElemB == <<"{", Q, "b", Q, ":", Q, "x", "y", Q, ",", Q, "e", Q, ":", "3", "}">>
ElemC == <<"{", Q, "c", Q, ":", "{", Q, "d", Q, ":", "2", "}", "}">>
ElemPool == {ElemA, ElemB, ElemC}

\* the array-of-objects fields of the system's responses
ArrayFields ==
  { <<"r", "i", "s", "k", "s">>, <<"m", "a", "t", "c", "h", "e", "s">>,
    <<"p", "o", "s", "i", "t", "i", "o", "n", "s">> }

\* what precedes the array field inside the document's object
Heads == { <<>>, <<Q, "s", Q, ":", "{", Q, "k", Q, ":", "1", "}", ",">> }

\* what follows the array field inside the document's object
ArrayTail == <<",", Q, "n", Q, ":", Q, "o", "k", Q>>

RECURSIVE JoinComma(_)
JoinComma(es) ==
  IF es = <<>> THEN <<>>
  ELSE IF Len(es) = 1 THEN es[1]
  ELSE es[1] \o <<",">> \o JoinComma(Tail(es))

\* the text of the document {head "field":[elems...] tail}
ArrayDocText(head, field, es, tail) ==
  <<"{">> \o head \o <<Q>> \o field \o <<Q, ":", "[">> \o JoinComma(es) \o <<"]">>
    \o tail \o <<"}">>

PlainDocs ==
  { <<"n", "u", "l", "l">>,
    <<"[", "1", ",", Q, "z", Q, "]">>,
    <<"{", Q, "a", Q, ":", Q, "x", BT, BT, BT, "y", Q, "}">>,
    <<"{", Q, "a", Q, ":", "1", ",", Q, "b", "c", Q, ":", "[", "2", ",", "{", Q, "d", Q,
      ":", Q, "x", Q, "}", "]", "}">>,
    <<"{", Q, "a", Q, ":", Q, "x", "{", "y", Q, "}">>,
    <<"{", Q, "a", Q, ":", Q, "q", BS, Q, "r", Q, "}">>,
    <<"{", " ", Q, "a", Q, " ", ":", " ", "1", "2", " ", "}">> }

Fences == {"none", "json", "bare"}

FenceJson == <<BT, BT, BT, "j", "s", "o", "n">>
FenceBare == <<BT, BT, BT>>

\* what a fence puts before the document
FenceOpen(f) ==
  CASE f = "json" -> FenceJson \o <<NL>>
    [] f = "bare" -> FenceBare \o <<NL>>
    [] OTHER -> <<>>

\* what a fence puts after the document
FenceClose(f) == IF f = "none" THEN <<>> ELSE <<NL>> \o FenceBare

\* the complete response of a document in a fence
Response(doc, f) == FenceOpen(f) \o doc \o FenceClose(f)

ArrayInputs ==
  { [kind |-> "array", head |-> h, field |-> fl, elems |-> es,
     doc |-> ArrayDocText(h, fl, es, ArrayTail)] :
      h \in Heads, fl \in ArrayFields,
      es \in UNION {[1..n -> ElemPool] : n \in 1..MaxElems} }

PlainInputs ==
  { [kind |-> "plain", head |-> <<>>, field |-> <<>>, elems |-> <<>>, doc |-> d] :
      d \in PlainDocs }

----------------------------------------------------------------------------
(* _parse_json_response *)

NoResult == [t |-> "unset", s |-> <<>>, k |-> <<>>, v |-> <<>>]

\* {"error": "Analysis response was truncated. Please try again."}
ErrorMarker ==
  JObj(<< <<"e", "r", "r", "o", "r">> >>,
       << JStr(<<"A", "n", "a", "l", "y", "s", "i", "s", " ", "r", "e", "s", "p", "o", "n",
                 "s", "e", " ", "w", "a", "s", " ", "t", "r", "u", "n", "c", "a", "t", "e",
                 "d", ".", " ", "P", "l", "e", "a", "s", "e", " ", "t", "r", "y", " ", "a",
                 "g", "a", "i", "n", ".">>) >>)

risks_key == <<Q, "r", "i", "s", "k", "s", Q>>

\* text.replace(FENCE + "json", "").replace(FENCE, "").strip(), FENCE three backticks
Clean(t) == Strip(Remove(Remove(t, FenceJson), FenceBare))

\* the condition of the walk-back: the text after the last "}" has an odd number of
\* quotes, or is something other than commas and does not start with "]" or "}"
AfterLastIsPartial(after_last) ==
  \/ Count(after_last, Q) % 2 # 0
  \/ /\ Strip(RStripComma(Strip(after_last))) # <<>>
     /\ ~StartsWith(Strip(after_last), <<"]">>)
     /\ ~StartsWith(Strip(after_last), <<"}">>)

\* repaired[:pos + 1].rstrip().rstrip(",") + "]}"
Candidate(r, p) == RStripComma(RStrip(Upto(r, p + 1))) \o <<"]", "}">>

\* the characters the bracket loop of the generic repair acts on (any other leaves the stack alone)
IsBracket(ch) == ch \in {"{", "[", "}", "]"}
Brackets(r) == SelectSeq(r, IsBracket)

\* the stack of closers of the generic repair, left after the first n brackets of b
RECURSIVE CloserStack(_, _)
CloserStack(b, n) ==
  IF n = 0 THEN <<>>
  ELSE LET st == CloserStack(b, n - 1)
           ch == b[n]
       IN IF ch = "{" THEN Append(st, "}")
          ELSE IF ch = "[" THEN Append(st, "]")
          ELSE IF ch \in {"}", "]"} /\ st # <<>> THEN SubSeq(st, 1, Len(st) - 1)
          ELSE st

Reversed(st) == [n \in 1..Len(st) |-> st[Len(st) + 1 - n]]

\* the generic repair: close a dangling string, drop trailing commas, close the brackets
GenericRepair(r) ==
  LET quoted == IF Count(r, Q) % 2 # 0 THEN Append(r, Q) ELSE r
      trimmed == RStripComma(RStrip(quoted))
      brackets == Brackets(trimmed)
  IN trimmed \o Reversed(CloserStack(brackets, Len(brackets)))

JsonStart ==
  /\ inp \in { [kind |-> i.kind, head |-> i.head, field |-> i.field, elems |-> i.elems,
                doc |-> i.doc, fence |-> f, cut |-> c] :
                 i \in ArrayInputs \cup PlainInputs, f \in Fences, c \in {0} }
  /\ text = <<>>
  /\ clean = <<>>
  /\ repaired = <<>>
  /\ pos = -1
  /\ pc = "idle"
  /\ result = NoResult

\* the response arrives: all of it, or cut off after any number of characters
Receive ==
  /\ pc = "idle"
  /\ \E c \in 0..Len(Response(inp.doc, inp.fence)) :
       /\ inp' = [inp EXCEPT !.cut = c]
       /\ text' = Upto(Response(inp.doc, inp.fence), c)
  /\ pc' = "start"
  /\ UNCHANGED <<clean, repaired, pos, result>>

\* lines 52-58: strip the fences, try the strict parse
ParseClean ==
  /\ pc = "start"
  /\ clean' = Clean(text)
  /\ IF Loads(clean').ok
       THEN /\ result' = Loads(clean').val
            /\ pc' = "return_strict"
            /\ UNCHANGED repaired
       ELSE /\ repaired' = clean'
            /\ pc' = "repair"
            /\ UNCHANGED result
  /\ UNCHANGED <<inp, text, pos>>

\* lines 62-78: decide whether to walk back over the closing braces
RisksCheck ==
  /\ pc = "repair"
  /\ LET last_complete == RFind(repaired, "}", Len(repaired))
     IN IF /\ Contains(repaired, risks_key)
           /\ last_complete > 0
           /\ AfterLastIsPartial(From(repaired, last_complete + 1))
          THEN pos' = last_complete /\ pc' = "walk"
          ELSE pc' = "generic" /\ UNCHANGED pos
  /\ UNCHANGED <<inp, text, clean, repaired, result>>

\* the walk-back loop stepping back one character instead of to the previous brace
WalkStepByCharacter ==
  /\ pc = "walk"
  /\ IF pos > 0
       THEN IF Loads(Candidate(repaired, pos)).ok
              THEN /\ repaired' = Candidate(repaired, pos)
                   /\ result' = Loads(repaired').val
                   /\ pc' = "return_walk"
                   /\ UNCHANGED pos
              ELSE /\ pos' = pos - 1
                   /\ UNCHANGED <<repaired, result, pc>>
       ELSE /\ pc' = "generic"
            /\ UNCHANGED <<repaired, result, pos>>
  /\ UNCHANGED <<inp, text, clean>>

\* lines 79-93: one turn of the walk-back loop
WalkStep ==
  /\ pc = "walk"
  /\ IF pos > 0
       THEN IF Loads(Candidate(repaired, pos)).ok
              THEN /\ repaired' = Candidate(repaired, pos)
                   /\ IF Loads(repaired').ok
                        THEN result' = Loads(repaired').val /\ pc' = "return_walk"
                        ELSE pc' = "generic" /\ UNCHANGED result
                   /\ UNCHANGED pos
              ELSE /\ pos' = RFind(repaired, "}", pos)
                   /\ UNCHANGED <<repaired, result, pc>>
       ELSE /\ pc' = "generic"
            /\ UNCHANGED <<repaired, result, pos>>
  /\ UNCHANGED <<inp, text, clean>>

\* lines 97-117: the generic repair and the last parse
Generic ==
  /\ pc = "generic"
  /\ repaired' = GenericRepair(repaired)
  /\ IF Loads(repaired').ok
       THEN result' = Loads(repaired').val /\ pc' = "return_repaired"
       ELSE result' = ErrorMarker /\ pc' = "return_error"
  /\ UNCHANGED <<inp, text, clean, pos>>

JsonStep == Receive \/ ParseClean \/ RisksCheck \/ WalkStep \/ Generic

Returned == pc \in {"return_strict", "return_walk", "return_repaired", "return_error"}

----------------------------------------------------------------------------
(* _parse_json_response as one function of the response text *)

\* the positions the walk-back loop tries: the closing braces of r after index 0
WalkPositions(r) == {p \in 1..(Len(r) - 1) : r[p + 1] = "}"}

\* lines 62-78: the walk-back is entered
WalksBack(r) ==
  /\ Contains(r, risks_key)
  /\ RFind(r, "}", Len(r)) > 0
  /\ AfterLastIsPartial(From(r, RFind(r, "}", Len(r)) + 1))

\* the members of S from the largest down
Descending(S) ==
  [n \in 1..Cardinality(S) |-> CHOOSE p \in S : Cardinality({q \in S : q > p}) = n - 1]

\* the texts json.loads is tried on, in the order of the tries: the cleaned
\* text (line 57), the walk-back's candidates from the rightmost brace down
\* (lines 66-78), the cleaned text with the generic repair (lines 80-113)
Tries(r) ==
  <<r>>
    \o (IF WalksBack(r)
          THEN [n \in 1..Cardinality(WalkPositions(r)) |->
                  Candidate(r, Descending(WalkPositions(r))[n])]
          ELSE <<>>)
    \o <<GenericRepair(r)>>

\* the value of the first try that parses, the error marker if none does (lines 114-117)
FirstParsed(tried) ==
  IF \E n \in 1..Len(tried) : tried[n].ok
    THEN tried[CHOOSE n \in 1..Len(tried) :
                  tried[n].ok /\ \A k \in 1..(n - 1) : ~tried[k].ok].val
    ELSE ErrorMarker

\* lines 50-117: the value _parse_json_response(t) returns
parse_json_response(t) ==
  FirstParsed([n \in 1..Len(Tries(Clean(t))) |-> Loads(Tries(Clean(t))[n])])

\* the steps of _parse_json_response return what the function gives
ParseStepsAgree == Returned => result = parse_json_response(text)

----------------------------------------------------------------------------
(* More Python str operations, for lessons/parsers.py *)

UpperCase ==
  <<"A", "B", "C", "D", "E", "F", "G", "H", "I", "J", "K", "L", "M", "N", "O", "P", "Q",
    "R", "S", "T", "U", "V", "W", "X", "Y", "Z">>
LowerCase ==
  <<"a", "b", "c", "d", "e", "f", "g", "h", "i", "j", "k", "l", "m", "n", "o", "p", "q",
    "r", "s", "t", "u", "v", "w", "x", "y", "z">>

LowerChar(c) ==
  IF \E n \in 1..Len(UpperCase) : UpperCase[n] = c
    THEN LowerCase[CHOOSE n \in 1..Len(UpperCase) : UpperCase[n] = c]
    ELSE c

UpperChar(c) ==
  IF \E n \in 1..Len(LowerCase) : LowerCase[n] = c
    THEN UpperCase[CHOOSE n \in 1..Len(LowerCase) : LowerCase[n] = c]
    ELSE c

\* s.lower(), s.upper()
Lower(s) == [n \in 1..Len(s) |-> LowerChar(s[n])]
Upper(s) == [n \in 1..Len(s) |-> UpperChar(s[n])]

\* s.split(c)[0] for a one-character c: s up to its first c
BeforeFirst(s, c) ==
  LET hits == {i \in 1..Len(s) : s[i] = c}
  IN IF hits = {} THEN s
     ELSE SubSeq(s, 1, (CHOOSE h \in hits : \A g \in hits : h <= g) - 1)

\* sep.join(parts)
RECURSIVE Join(_, _)
Join(sep, parts) ==
  IF parts = <<>> THEN <<>>
  ELSE IF Len(parts) = 1 THEN parts[1]
  ELSE parts[1] \o sep \o Join(sep, Tail(parts))

----------------------------------------------------------------------------
(* find_col *)

\* for i, h in enumerate(headers): if term in h: return i -- from column i on; -1 if none
RECURSIVE FirstColumnWith(_, _, _)
FirstColumnWith(hs, term, i) ==
  IF i >= Len(hs) THEN -1
  ELSE IF Contains(hs[i + 1], term) THEN i
  ELSE FirstColumnWith(hs, term, i + 1)

\* for term in terms: ... -- from term number n on
RECURSIVE FindColFrom(_, _, _)
FindColFrom(hs, ts, n) ==
  IF n > Len(ts) THEN -1
  ELSE IF FirstColumnWith(hs, ts[n], 0) >= 0 THEN FirstColumnWith(hs, ts[n], 0)
  ELSE FindColFrom(hs, ts, n + 1)

\* a find_col that scans column by column and takes the first column with any term
RECURSIVE FindColByColumn(_, _, _)
FindColByColumn(hs, ts, i) ==
  IF i >= Len(hs) THEN -1
  ELSE IF \E n \in 1..Len(ts) : Contains(hs[i + 1], ts[n]) THEN i
  ELSE FindColByColumn(hs, ts, i + 1)

find_col_by_column(hs, ts) == FindColByColumn(hs, ts, 0)

find_col(hs, ts) == FindColFrom(hs, ts, 1)

\* the largest number of columns of a header row, and of candidate terms
MaxCols == 3
MaxTerms == 2

\* lowercased header cells and candidate terms
HeaderPool == { <<>>, <<"i", "d">>, <<"d", "a", "t", "e">>, <<"p", "r", "o", "j", "e", "c", "t", " ", "i", "d">>, <<"d", "a", "t", "e", " ", "l", "o", "g", "g", "e", "d">> }
TermPool == { <<"i", "d">>, <<"d", "a", "t", "e">>, <<"d", "a", "t", "e", " ", "l", "o", "g", "g", "e", "d">>, <<"p", "r", "o", "j", "e", "c", "t">> }

ColStart ==
  /\ headers \in UNION {[1..n -> HeaderPool] : n \in 0..MaxCols}
  /\ terms \in UNION {[1..n -> TermPool] : n \in 1..MaxTerms}
  /\ col = -1
  /\ fpc = "call"

ColIdle == headers = <<>> /\ terms = <<>> /\ col = -1 /\ fpc = "off"

\* the call find_col(headers, *terms)
Resolve ==
  /\ fpc = "call"
  /\ col' = find_col(headers, terms)
  /\ fpc' = "return"
  /\ UNCHANGED <<headers, terms>>

----------------------------------------------------------------------------
(* map_discipline, map_severity *)

\* DISCIPLINE_MAP, in the order of the dict
DISCIPLINE_MAP ==
  << <<<<"w", "e", "l", "d">>, "Welding">>, <<<<"c", "o", "a", "t">>, "Coatings">>, <<<<"n", "d", "e">>, "NDE">>,
     <<<<"n", "d", "t">>, "NDE">>, <<<<"i", "n", "s", "p", "e", "c", "t">>, "NDE">>, <<<<"e", "n", "v", "i", "r", "o", "n", "m", "e", "n", "t">>, "Environmental">>,
     <<<<"s", "a", "f", "e", "t", "y">>, "Safety">>, <<<<"c", "i", "v", "i", "l">>, "Civil">>, <<<<"m", "e", "c", "h", "a", "n", "i", "c", "a", "l">>, "Mechanical">>,
     <<<<"e", "l", "e", "c", "t", "r", "i", "c">>, "Electrical">>, <<<<"p", "r", "o", "c", "u", "r">>, "Materials/Procurement">>,
     <<<<"p", "r", "o", "j", "e", "c", "t">>, "Project Controls">>, <<<<"m", "a", "n", "a", "g", "e">>, "Project Controls">>,
     <<<<"s", "u", "r", "v", "e", "y">>, "Civil">>, <<<<"q", "u", "a", "l", "i", "t", "y">>, "Quality">>, <<<<"r", "e", "g", "u", "l", "a", "t">>, "Regulatory">> >>

\* SEVERITY_KEYWORDS, in the order of the dict
SEVERITY_KEYWORDS ==
  << <<"Critical", <<<<"c", "r", "i", "t", "i", "c", "a", "l">>, <<"s", "a", "f", "e", "t", "y">>, <<"i", "n", "j", "u", "r", "y">>, <<"f", "a", "t", "a", "l", "i", "t", "y">>, <<"c", "a", "t", "a", "s", "t", "r", "o", "p", "h">>>> >>,
     <<"High", <<<<"w", "e", "e", "k">>, <<"m", "o", "n", "t", "h">>, <<"s", "i", "g", "n", "i", "f", "i", "c", "a", "n", "t">>, <<"$">>, <<"m", "a", "j", "o", "r">>, <<"s", "u", "b", "s", "t", "a", "n", "t", "i", "a", "l">>>> >>,
     <<"Medium", <<<<"d", "e", "l", "a", "y">>, <<"r", "e", "w", "o", "r", "k">>, <<"s", "l", "o", "w">>, <<"m", "o", "d", "e", "r", "a", "t", "e">>, <<"m", "i", "n", "o", "r", " ", "c", "o", "s", "t">>>> >> >>

\* for keyword, discipline in DISCIPLINE_MAP.items(): ... -- from entry n on
RECURSIVE DisciplineFrom(_, _, _)
DisciplineFrom(map, lower, n) ==
  IF n > Len(map) THEN ""
  ELSE IF Contains(lower, map[n][1]) THEN map[n][2]
  ELSE DisciplineFrom(map, lower, n + 1)

\* a map_discipline that looks for the keywords in the text as given, not lowercased
map_discipline_cased(r) ==
  IF r = <<>> THEN "" ELSE DisciplineFrom(DISCIPLINE_MAP, r, 1)

map_discipline(r) ==
  IF r = <<>> THEN "" ELSE DisciplineFrom(DISCIPLINE_MAP, Lower(r), 1)

\* any(kw in lower for kw in keywords)
AnyKeyword(lower, keywords) == \E n \in 1..Len(keywords) : Contains(lower, keywords[n])

\* for severity, keywords in SEVERITY_KEYWORDS.items(): ... -- from entry n on
RECURSIVE SeverityFrom(_, _, _)
SeverityFrom(table, lower, n) ==
  IF n > Len(table) THEN "Medium"
  ELSE IF AnyKeyword(lower, table[n][2]) THEN table[n][1]
  ELSE SeverityFrom(table, lower, n + 1)

\* a map_severity that scans the severities from the weakest to the strongest
map_severity_weakest_first(impact_text) ==
  IF impact_text = <<>> THEN "Medium"
  ELSE SeverityFrom(Reversed(SEVERITY_KEYWORDS), Lower(impact_text), 1)

\* a map_severity that gives no severity for an empty text, as map_discipline does
map_severity_blank_for_empty(impact_text) ==
  IF impact_text = <<>> THEN ""
  ELSE SeverityFrom(SEVERITY_KEYWORDS, Lower(impact_text), 1)

map_severity(impact_text) ==
  IF impact_text = <<>> THEN "Medium"
  ELSE SeverityFrom(SEVERITY_KEYWORDS, Lower(impact_text), 1)

\* the largest number of phrases of a classified text
MaxPhrases == 2

Phrases ==
  { <<"m", "i", "n", "o", "r", " ", "d", "e", "l", "a", "y", " ", "o", "f", " ", "o", "n", "e", " ", "w", "e", "e", "k">>, <<"r", "e", "s", "u", "l", "t", "e", "d", " ", "i", "n", " ", "a", " ", "f", "a", "t", "a", "l", "i", "t", "y">>, <<"N", "D", "E", "/", "U", "T", " ", "i", "n", "s", "p", "e", "c", "t", "i", "o", "n", " ", "f", "i", "n", "d", "i", "n", "g", "s">>,
    <<"Q", "u", "a", "l", "i", "t", "y">>, <<"W", "e", "l", "d", " ", "r", "e", "p", "a", "i", "r">>, <<"S", "A", "F", "E", "T", "Y">>, <<"$", "5", "0", "k", " ", "r", "e", "w", "o", "r", "k">>, <<"R", "e", "g", "u", "l", "a", "t", "o", "r", "y">>,
    <<"c", "o", "a", "t", "i", "n", "g">>, <<"n", "o", "n", "e", " ", "o", "f", " ", "t", "h", "e", "s", "e">>, <<"P", "r", "o", "j", "e", "c", "t", " ", "M", "a", "n", "a", "g", "e", "m", "e", "n", "t">> }

ClassStart ==
  /\ raw \in {Join(<<" ">>, ps) : ps \in UNION {[1..n -> Phrases] : n \in 0..MaxPhrases}}
  /\ severity = ""
  /\ discipline = ""
  /\ cpc = "call"

ClassIdle == raw = <<>> /\ severity = "" /\ discipline = "" /\ cpc = "off"

\* the calls map_discipline(raw) and map_severity(raw)
Classify ==
  /\ cpc = "call"
  /\ discipline' = map_discipline(raw)
  /\ severity' = map_severity(raw)
  /\ cpc' = "return"
  /\ UNCHANGED raw

----------------------------------------------------------------------------
(* Lesson: the choices of the model's fields *)

\* Lesson.SEVERITY_CHOICES, the stored values
SEVERITY_CHOICES == {"Critical", "High", "Medium", "Low"}

\* Lesson.DISCIPLINE_CHOICES, the stored values
DISCIPLINE_CHOICES ==
  { "Quality", "Welding", "NDE", "Coatings", "Civil", "Mechanical", "Electrical",
    "Environmental", "Safety", "Project Controls", "Materials/Procurement", "Regulatory" }

----------------------------------------------------------------------------
(* parse_xlsx, parse_csv *)

\* a cell of a worksheet that holds no value (None); a CSV file has no such cell
NoneCell == <<"<None>">>

Placeholders == { <<"n", "o", "n", "e">>, <<"n", "a", "n">>, <<"n", "a", "t">> }

cell_str(value) ==
  IF value = NoneCell THEN <<>>
  ELSE IF Lower(Strip(value)) \in Placeholders THEN <<>>
  ELSE Strip(value)

\* the candidate terms of each canonical field (the same lists in both importers)
FieldTerms ==
  [ id |-> <<<<"l", "l", " ", "#">>, <<"l", "l", "#">>, <<"i", "d">>, <<"n", "u", "m", "b", "e", "r">>>>,
    date |-> <<<<"d", "a", "t", "e", " ", "l", "o", "g", "g", "e", "d">>, <<"d", "a", "t", "e">>>>,
    project |-> <<<<"p", "r", "o", "j", "e", "c", "t", " ", "n", "a", "m", "e">>, <<"p", "r", "o", "j", "e", "c", "t">>>>,
    region |-> <<<<"r", "e", "g", "i", "o", "n">>, <<"l", "o", "c", "a", "t", "i", "o", "n">>>>,
    discipline |-> <<<<"d", "i", "s", "c", "i", "p", "l", "i", "n", "e">>>>,
    category |-> <<<<"c", "a", "t", "e", "g", "o", "r", "y">>>>,
    phase |-> <<<<"p", "h", "a", "s", "e">>, <<"m", "i", "l", "e", "s", "t", "o", "n", "e">>>>,
    logged_by |-> <<<<"l", "o", "g", "g", "e", "d", " ", "b", "y">>, <<"a", "u", "t", "h", "o", "r">>>>,
    context |-> <<<<"s", "i", "t", "u", "a", "t", "i", "o", "n">>, <<"c", "o", "n", "t", "e", "x", "t">>>>,
    what_happened |-> <<<<"w", "h", "a", "t", " ", "h", "a", "p", "p", "e", "n", "e", "d">>, <<"e", "v", "e", "n", "t">>, <<"d", "e", "s", "c", "r", "i", "p", "t", "i", "o", "n">>>>,
    impact |-> <<<<"i", "m", "p", "a", "c", "t">>, <<"c", "o", "n", "s", "e", "q", "u", "e", "n", "c", "e">>>>,
    root_cause |-> <<<<"r", "o", "o", "t", " ", "c", "a", "u", "s", "e">>>>,
    worked_didnt |-> <<<<"w", "h", "a", "t", " ", "w", "o", "r", "k", "e", "d">>, <<"w", "o", "r", "k", "e", "d", "/", "d", "i", "d", "n">>>>,
    recommendation |-> <<<<"r", "e", "c", "o", "m", "m", "e", "n", "d", "a", "t", "i", "o", "n">>, <<"a", "c", "t", "i", "o", "n">>>>,
    keywords |-> <<<<"k", "e", "y", "w", "o", "r", "d">>, <<"t", "a", "g">>>>,
    status |-> <<<<"s", "t", "a", "t", "u", "s">>>>,
    assigned_to |-> <<<<"a", "s", "s", "i", "g", "n", "e", "d", " ", "t", "o">>>>,
    docs |-> <<<<"s", "u", "p", "p", "o", "r", "t", "i", "n", "g", " ", "d", "o", "c">>, <<"d", "o", "c", "u", "m", "e", "n", "t">>>> ]

XlsxFields == DOMAIN FieldTerms
CsvFields == XlsxFields \ {"worked_didnt", "assigned_to", "docs"}

\* parse_xlsx's raw_headers without the lower()
RawHeadersXlsxCased(header) == [n \in 1..Len(header) |-> cell_str(header[n])]

\* parse_xlsx: raw_headers = [cell_str(h).lower() for h in rows[0]]
RawHeadersXlsx(header) == [n \in 1..Len(header) |-> Lower(cell_str(header[n]))]

\* parse_csv: raw_headers = [h.lower().strip() for h in rows[0]]
RawHeadersCsv(header) == [n \in 1..Len(header) |-> Strip(Lower(header[n]))]

\* col_map = {"id": find_col(raw_headers, "ll #", ...), ...}
ColMap(fields, hs) == [f \in fields |-> find_col(hs, FieldTerms[f])]

\* col_map.get(key, -1)
ColOf(cm, key) == IF key \in DOMAIN cm THEN cm[key] ELSE -1

\* parse_xlsx's get(row, key)
GetXlsx(cm, row, key) ==
  IF ColOf(cm, key) < 0 \/ ColOf(cm, key) >= Len(row) THEN <<>>
  ELSE cell_str(row[ColOf(cm, key) + 1])

\* parse_csv's get(row, key)
GetCsv(cm, row, key) ==
  IF ColOf(cm, key) < 0 \/ ColOf(cm, key) >= Len(row) THEN <<>>
  ELSE Strip(row[ColOf(cm, key) + 1])

\* the longest title
TitleMax == 100
Ellipsis == <<".", ".", ".">>

WhatHappenedLabel == <<NL, NL, "W", "h", "a", "t", " ", "h", "a", "p", "p", "e", "n", "e", "d", ":", " ">>

\* a description that labels what_happened also when context is empty
DescriptionAlwaysLabelled(context, what_happened) ==
  IF what_happened # <<>> /\ what_happened # context
    THEN context \o WhatHappenedLabel \o what_happened
    ELSE context

\* description = context, plus the what-happened block when it differs
Description(context, what_happened) ==
  IF what_happened # <<>> /\ what_happened # context
    THEN IF context # <<>> THEN context \o WhatHappenedLabel \o what_happened
         ELSE what_happened
    ELSE context

\* a title that is not cut to TitleMax characters
TitleXlsxUncut(context, what_happened) ==
  LET first == Strip(BeforeFirst(BeforeFirst(BeforeFirst(context, "."), "!"), NL))
  IN IF first # <<>> THEN first
     ELSE Strip(BeforeFirst(BeforeFirst(what_happened, "."), NL))

\* parse_xlsx, lines 146-150
TitleXlsx(context, what_happened) ==
  LET first == Strip(BeforeFirst(BeforeFirst(BeforeFirst(context, "."), "!"), NL))
      cut == IF Len(first) > TitleMax
               THEN Upto(first, TitleMax - 3) \o Ellipsis ELSE first
  IN IF cut # <<>> THEN cut
     ELSE Upto(Strip(BeforeFirst(BeforeFirst(what_happened, "."), NL)), TitleMax)

\* parse_csv, lines 238-240
TitleCsv(context, what_happened) ==
  LET first == Upto(Strip(BeforeFirst(BeforeFirst(context, "."), NL)), TitleMax)
  IN IF first # <<>> THEN first
     ELSE Upto(Strip(BeforeFirst(what_happened, ".")), TitleMax)

\* the non-empty ones of a sequence of texts: filter(None, parts)
RECURSIVE NonEmpty(_)
NonEmpty(parts) ==
  IF parts = <<>> THEN <<>>
  ELSE IF Head(parts) = <<>> THEN NonEmpty(Tail(parts))
  ELSE <<Head(parts)>> \o NonEmpty(Tail(parts))

\* an "or" that prefers its second operand
OrSecond(a, b) == IF b # <<>> THEN b ELSE a

\* a or b
Or(a, b) == IF a # <<>> THEN a ELSE b

\* parse_xlsx, lines 132-186: whether the row is emitted, and its record
XlsxRecord(cm, row) ==
  LET context == GetXlsx(cm, row, "context")
      what_happened == GetXlsx(cm, row, "what_happened")
      worked == GetXlsx(cm, row, "worked_didnt")
      described == Description(context, what_happened)
      title == TitleXlsx(context, what_happened)
      impact == GetXlsx(cm, row, "impact")
      logged_by == GetXlsx(cm, row, "logged_by")
      status == GetXlsx(cm, row, "status")
      docs == GetXlsx(cm, row, "docs")
      keywords_parts ==
        <<GetXlsx(cm, row, "keywords"), GetXlsx(cm, row, "category")>>
          \o (IF logged_by # <<>> THEN <<<<"l", "o", "g", "g", "e", "d", " ", "b", "y", ":", " ">> \o logged_by>> ELSE <<>>)
          \o (IF status # <<>> THEN <<<<"s", "t", "a", "t", "u", "s", ":", " ">> \o status>> ELSE <<>>)
          \o (IF docs # <<>> THEN <<docs>> ELSE <<>>)
  IN [ emit |-> ~(context = <<>> /\ what_happened = <<>>) /\ title # <<>>,
       rec |->
         [ title |-> title,
           description |->
             IF worked # <<>> THEN described \o <<NL, NL>> \o worked ELSE described,
           root_cause |-> GetXlsx(cm, row, "root_cause"),
           recommendation |-> GetXlsx(cm, row, "recommendation"),
           impact |-> impact,
           work_type |-> <<"P", "i", "p", "e", "l", "i", "n", "e", " ", "C", "o", "n", "s", "t", "r", "u", "c", "t", "i", "o", "n">>,
           phase |-> GetXlsx(cm, row, "phase"),
           discipline |->
             map_discipline(Or(GetXlsx(cm, row, "discipline"), GetXlsx(cm, row, "category"))),
           severity |-> map_severity(impact),
           environment |-> <<>>,
           project |-> GetXlsx(cm, row, "project"),
           location |-> GetXlsx(cm, row, "region"),
           keywords |-> Join(<<",", " ">>, NonEmpty(keywords_parts)),
           logged_by |-> logged_by,
           status |-> status,
           assigned_to |-> GetXlsx(cm, row, "assigned_to"),
           supporting_docs |-> docs ] ]

\* parse_csv, lines 229-258: whether the row is emitted, and its record
CsvRecord(cm, row) ==
  LET context == GetCsv(cm, row, "context")
      what_happened == GetCsv(cm, row, "what_happened")
      title == TitleCsv(context, what_happened)
      impact == GetCsv(cm, row, "impact")
  IN [ emit |-> ~(context = <<>> /\ what_happened = <<>>) /\ title # <<>>,
       rec |->
         [ title |-> title,
           description |-> Description(context, what_happened),
           root_cause |-> GetCsv(cm, row, "root_cause"),
           recommendation |-> GetCsv(cm, row, "recommendation"),
           impact |-> impact,
           work_type |-> <<"P", "i", "p", "e", "l", "i", "n", "e", " ", "C", "o", "n", "s", "t", "r", "u", "c", "t", "i", "o", "n">>,
           phase |-> GetCsv(cm, row, "phase"),
           discipline |->
             map_discipline(Or(GetCsv(cm, row, "discipline"), GetCsv(cm, row, "category"))),
           severity |-> map_severity(impact),
           project |-> GetCsv(cm, row, "project"),
           location |-> GetCsv(cm, row, "region"),
           keywords |-> GetCsv(cm, row, "keywords") ] ]

----------------------------------------------------------------------------
(* The files the importers are run on *)

\* the largest number of data rows of a file
MaxRows == 2

\* a text of n characters without a sentence end
LongText(n) == [m \in 1..n |-> "a"]

LayoutA == << <<"S", "i", "t", "u", "a", "t", "i", "o", "n">>, <<"W", "h", "a", "t", " ", "H", "a", "p", "p", "e", "n", "e", "d">>, <<"I", "m", "p", "a", "c", "t">>, <<"D", "i", "s", "c", "i", "p", "l", "i", "n", "e">> >>

LayoutB ==
  << <<"L", "L", " ", "#", " ", "(", "A", "u", "t", "o", ")">>, <<"C", "O", "N", "T", "E", "X", "T", " ">>, <<"E", "v", "e", "n", "t", " ", "D", "e", "s", "c", "r", "i", "p", "t", "i", "o", "n">>, <<"C", "a", "t", "e", "g", "o", "r", "y">>, <<"K", "e", "y", "w", "o", "r", "d", "s">>,
     <<"S", "t", "a", "t", "u", "s">>, <<"L", "o", "g", "g", "e", "d", " ", "B", "y">>, <<"W", "h", "a", "t", " ", "W", "o", "r", "k", "e", "d">> >>

RowsA ==
  { << <<"W", "e", "l", "d", " ", "f", "a", "i", "l", "e", "d", " ", "N", "D", "E">>, <<"C", "r", "a", "c", "k", "e", "d", " ", "w", "e", "l", "d", " ", "f", "o", "u", "n", "d">>, <<"$", "5", "0", "k", " ", "r", "e", "w", "o", "r", "k", ",", " ", "t", "w", "o", " ", "w", "e", "e", "k", " ", "d", "e", "l", "a", "y">>,
       <<"W", "e", "l", "d", "i", "n", "g">> >>,
    << <<>>, <<>>, <<"m", "i", "n", "o", "r">>, <<"C", "i", "v", "i", "l">> >>,
    << <<"N", "o", "n", "e">>, <<" ", "n", "a", "n", " ">>, <<>>, <<>> >>,
    << LongText(TitleMax + 5), <<>>, <<>>, <<>> >>,
    << LongText(TitleMax + 1) \o <<".", " ", "T", "h", "e", "n", " ", "m", "o", "r", "e">>, <<"S", "h", "o", "r", "t">>, <<>>, <<>> >>,
    << <<>>, LongText(TitleMax + 5), <<>>, <<>> >>,
    << <<".", " ", "l", "e", "a", "d", "i", "n", "g", " ", "s", "t", "o", "p">>, <<"P", "i", "p", "e", " ", "d", "e", "n", "t", "e", "d", "!", " ", "B", "a", "d", "l", "y", ".", " ", "R", "e", "p", "l", "a", "c", "e", "d">>, <<>>, <<"N", "D", "E">> >>,
    << <<>>, <<" ", ".", " ">>, <<>>, <<>> >>,
    << <<"S", "a", "m", "e", " ", "t", "e", "x", "t">>, <<"S", "a", "m", "e", " ", "t", "e", "x", "t">>, <<"s", "a", "f", "e", "t", "y">>, <<>> >>,
    << <<"S", "t", "o", "p", "!", " ", "N", "o", "w", ".", " ", "L", "a", "t", "e", "r">>, <<"l", "i", "n", "e", " ", "o", "n", "e", NL, "l", "i", "n", "e", " ", "t", "w", "o">>, <<"o", "n", "e", " ", "m", "o", "n", "t", "h">>, <<"S", "u", "r", "v", "e", "y">> >>,
    << <<"O", "n", "l", "y", " ", "c", "o", "n", "t", "e", "x", "t">> >>,
    << NoneCell, <<"V", "a", "l", "v", "e", " ", "s", "t", "u", "c", "k">>, NoneCell, NoneCell >> }

RowsB ==
  { << <<"L", "L", "-", "0", "0", "1">>, <<"T", "r", "e", "n", "c", "h", " ", "c", "o", "l", "l", "a", "p", "s", "e", ".", " ", "C", "r", "e", "w", " ", "e", "v", "a", "c", "u", "a", "t", "e", "d">>, <<"W", "a", "l", "l", " ", "f", "a", "i", "l", "e", "d">>, <<"C", "i", "v", "i", "l", " ", "s", "a", "f", "e", "t", "y">>,
       <<"t", "r", "e", "n", "c", "h", ",", " ", "s", "h", "o", "r", "i", "n", "g">>, <<"O", "p", "e", "n">>, <<"J", ".", " ", "D", "o", "e">>, <<"S", "h", "o", "r", "i", "n", "g", " ", "w", "o", "r", "k", "e", "d">> >>,
    << <<"7">>, <<"n", "o", "n", "e">>, <<"N", "a", "N">>, <<"C", "o", "a", "t", "i", "n", "g", "s">>, <<>>, <<>>, <<>>, <<>> >>,
    << NoneCell, NoneCell, <<"G", "a", "s", "k", "e", "t", " ", "l", "e", "a", "k">>, NoneCell, <<"g", "a", "s", "k", "e", "t">>, NoneCell, NoneCell,
       NoneCell >>,
    << <<"L", "L", "-", "4">>, <<>>, <<>>, <<"Q", "u", "a", "l", "i", "t", "y">>, <<>>, <<"C", "l", "o", "s", "e", "d">>, <<>>, <<"O", "n", "l", "y", " ", "w", "o", "r", "k", "e", "d", " ", "t", "e", "x", "t">> >>,
    << <<"L", "L", "-", "5">>, <<"L", "a", "t", "e", " ", "d", "e", "l", "i", "v", "e", "r", "y">> >> }

\* a layout with a discipline column and a category column
LayoutC ==
  << <<"C", "o", "n", "t", "e", "x", "t">>, <<"D", "i", "s", "c", "i", "p", "l", "i", "n", "e">>, <<"C", "a", "t", "e", "g", "o", "r", "y">>, <<"I", "m", "p", "a", "c", "t">>, <<"S", "u", "p", "p", "o", "r", "t", "i", "n", "g", " ", "D", "o", "c", "s">> >>

RowsC ==
  { << <<"C", "o", "a", "t", "i", "n", "g", " ", "h", "o", "l", "i", "d", "a", "y">>, <<>>, <<"C", "o", "a", "t", "i", "n", "g", "s", " ", "f", "i", "e", "l", "d">>, <<"m", "i", "n", "o", "r">>, <<"r", "e", "p", "o", "r", "t", ".", "p", "d", "f">> >>,
    << <<"B", "o", "l", "t", " ", "t", "o", "r", "q", "u", "e">>, <<"M", "e", "c", "h", "a", "n", "i", "c", "a", "l">>, <<"Q", "u", "a", "l", "i", "t", "y", " ", "a", "u", "d", "i", "t">>, <<"o", "n", "e", " ", "f", "a", "t", "a", "l", "i", "t", "y">>, <<>> >>,
    << <<"S", "u", "r", "v", "e", "y", " ", "l", "a", "t", "e">>, NoneCell, NoneCell, NoneCell, NoneCell >> }

\* a row a CSV file can hold: every cell is a string
IsCsvRow(row) == \A n \in 1..Len(row) : row[n] # NoneCell

\* the files of a layout: the header row and up to MaxRows data rows
FilesOf(layout, pool) ==
  { <<layout>> \o below : below \in UNION {[1..n -> pool] : n \in 0..MaxRows} }

\* the files of a kind; the file without any row among them
Files(k) ==
  LET keep(pool) == IF k = "csv" THEN {r \in pool : IsCsvRow(r)} ELSE pool
  IN {<<>>} \cup FilesOf(LayoutA, keep(RowsA)) \cup FilesOf(LayoutB, keep(RowsB))
       \cup FilesOf(LayoutC, keep(RowsC))

\* the largest number of worksheets of a workbook
MaxSheets == 3

SheetNames ==
  { <<"L", "e", "s", "s", "o", "n", "s", " ", "L", "e", "a", "r", "n", "e", "d">>, <<"S", "h", "e", "e", "t", "1">>, <<"E", "X", "P", "E", "R", "I", "E", "N", "C", "E", " ", "l", "o", "g">>,
    <<"S", "u", "m", "m", "a", "r", "y">>, <<"M", "y", " ", "l", "e", "s", "s", "o", "n", "s">> }

\* the orders of worksheet names of a workbook: no name twice
NameOrders ==
  { ns \in UNION {[1..n -> SheetNames] : n \in 1..MaxSheets} :
      \A i, j \in 1..Len(ns) : ns[i] = ns[j] => i = j }

\* a data row that tells the worksheet it is on: its context has k letters
ProbeRow(k) == << LongText(k), <<>>, <<>>, <<>> >>

\* the rows of the worksheet at position k: a header row and one data row, or k - 1 rows
ProbeSheet(v, k) ==
  IF v = "one" THEN <<LayoutA, ProbeRow(k)>>
  ELSE IF k = 1 THEN <<>>
  ELSE <<LayoutA>> \o [m \in 1..(k - 2) |-> ProbeRow(k)]

\* the workbooks: one worksheet holding any of the files, or several worksheets in any
\* order of names, each with rows of its own
Workbooks ==
  { << [title |-> <<"S", "h", "e", "e", "t", "1">>, rows |-> f] >> : f \in Files("xlsx") }
    \cup { [k \in 1..Len(ns) |-> [title |-> ns[k], rows |-> ProbeSheet(v, k)]] :
             ns \in NameOrders, v \in {"one", "grow"} }

\* the name of a worksheet of lessons, as it is: without lower()
SheetMatchesCased(name) ==
  \/ Contains(name, <<"l", "e", "s", "s", "o", "n">>)
  \/ Contains(name, <<"e", "x", "p", "e", "r", "i", "e", "n", "c", "e">>)

\* "lesson" in lower or "experience" in lower
SheetMatches(name) ==
  \/ Contains(Lower(name), <<"l", "e", "s", "s", "o", "n">>)
  \/ Contains(Lower(name), <<"e", "x", "p", "e", "r", "i", "e", "n", "c", "e">>)

\* for name in wb.sheetnames: ... break -- from position n on; 0 when sheet stays None
RECURSIVE FirstSheetFrom(_, _)
FirstSheetFrom(book, n) ==
  IF n > Len(book) THEN 0
  ELSE IF SheetMatches(book[n].title) THEN n
  ELSE FirstSheetFrom(book, n + 1)

\* the worksheet parse_xlsx reads: the first matching one, else wb[wb.sheetnames[0]]
SelectSheet(book) ==
  IF FirstSheetFrom(book, 1) = 0 THEN 1 ELSE FirstSheetFrom(book, 1)

----------------------------------------------------------------------------
(* parse_xlsx, parse_csv: the steps *)

\* a row count check that lets a file of a header row alone through
MinRowsHeaderOnly == 2 - 1

\* if len(rows) < 2: the fewest rows of a file that is imported
MinRows == 2

\* the second component of the returned pair: None, or a message
NoError == <<"<None>">>
NotReturned == <<"<unset>">>

\* f'Sheet "{sheet.title}" has no data rows.'
SheetError(title) ==
  <<"S", "h", "e", "e", "t", " ", Q>> \o title \o <<Q, " ", "h", "a", "s", " ", "n", "o", " ", "d", "a", "t", "a", " ", "r", "o", "w", "s", ".">>

CsvError == <<"C", "S", "V", " ", "h", "a", "s", " ", "n", "o", " ", "d", "a", "t", "a", " ", "r", "o", "w", "s", ".">>

NoRecords == <<>>

ImportStart ==
  /\ \/ kind = "xlsx" /\ wb \in Workbooks /\ rows = <<>>
     \/ kind = "csv" /\ wb = <<>> /\ rows \in Files("csv")
  /\ sheet = 0
  /\ raw_headers = <<>>
  /\ col_map = [f \in {} |-> -1]
  /\ row_i = 0
  /\ lessons = NoRecords
  /\ error = NotReturned
  /\ ipc = "call"

ImportIdle ==
  /\ kind = "none"
  /\ wb = <<>>
  /\ sheet = 0
  /\ rows = <<>>
  /\ raw_headers = <<>>
  /\ col_map = [f \in {} |-> -1]
  /\ row_i = 0
  /\ lessons = NoRecords
  /\ error = NotReturned
  /\ ipc = "off"

\* parse_xlsx, lines 82-122: the worksheet and its rows; then too few rows, or the header
\* row and the column map
XlsxOpen ==
  /\ kind = "xlsx" /\ ipc = "call"
  /\ sheet' = SelectSheet(wb)
  /\ rows' = wb[sheet'].rows
  /\ IF Len(rows') < MinRows
       THEN /\ error' = SheetError(wb[sheet'].title)
            /\ ipc' = "return"
            /\ UNCHANGED <<raw_headers, col_map, row_i>>
       ELSE /\ raw_headers' = RawHeadersXlsx(rows'[1])
            /\ col_map' = ColMap(XlsxFields, raw_headers')
            /\ row_i' = 2
            /\ ipc' = "rows"
            /\ UNCHANGED error
  /\ UNCHANGED <<kind, wb, lessons>>

\* a row loop that stops at the first row it does not emit
XlsxRowBreaking ==
  /\ kind = "xlsx" /\ ipc = "rows" /\ row_i <= Len(rows)
  /\ IF XlsxRecord(col_map, rows[row_i]).emit
       THEN /\ lessons' = Append(lessons, XlsxRecord(col_map, rows[row_i]).rec)
            /\ row_i' = row_i + 1
       ELSE /\ lessons' = lessons
            /\ row_i' = Len(rows) + 1
  /\ UNCHANGED <<kind, wb, sheet, rows, raw_headers, col_map, error, ipc>>

\* parse_xlsx, lines 131-186: one data row
XlsxRow ==
  /\ kind = "xlsx" /\ ipc = "rows" /\ row_i <= Len(rows)
  /\ lessons' = IF XlsxRecord(col_map, rows[row_i]).emit
                  THEN Append(lessons, XlsxRecord(col_map, rows[row_i]).rec)
                  ELSE lessons
  /\ row_i' = row_i + 1
  /\ UNCHANGED <<kind, wb, sheet, rows, raw_headers, col_map, error, ipc>>

\* parse_xlsx, line 188
XlsxReturn ==
  /\ kind = "xlsx" /\ ipc = "rows" /\ row_i > Len(rows)
  /\ error' = NoError
  /\ ipc' = "return"
  /\ UNCHANGED <<kind, wb, sheet, rows, raw_headers, col_map, row_i, lessons>>

\* parse_csv, lines 197-219: too few rows, or the header row and the column map
CsvOpen ==
  /\ kind = "csv" /\ ipc = "call"
  /\ IF Len(rows) < MinRows
       THEN /\ error' = CsvError
            /\ ipc' = "return"
            /\ UNCHANGED <<raw_headers, col_map, row_i>>
       ELSE /\ raw_headers' = RawHeadersCsv(rows[1])
            /\ col_map' = ColMap(CsvFields, raw_headers')
            /\ row_i' = 2
            /\ ipc' = "rows"
            /\ UNCHANGED error
  /\ UNCHANGED <<kind, wb, sheet, rows, lessons>>

\* parse_csv, lines 228-258: one data row
CsvRow ==
  /\ kind = "csv" /\ ipc = "rows" /\ row_i <= Len(rows)
  /\ lessons' = IF CsvRecord(col_map, rows[row_i]).emit
                  THEN Append(lessons, CsvRecord(col_map, rows[row_i]).rec)
                  ELSE lessons
  /\ row_i' = row_i + 1
  /\ UNCHANGED <<kind, wb, sheet, rows, raw_headers, col_map, error, ipc>>

\* parse_csv, line 260
CsvReturn ==
  /\ kind = "csv" /\ ipc = "rows" /\ row_i > Len(rows)
  /\ error' = NoError
  /\ ipc' = "return"
  /\ UNCHANGED <<kind, wb, sheet, rows, raw_headers, col_map, row_i, lessons>>

ImportStep == XlsxOpen \/ XlsxRow \/ XlsxReturn \/ CsvOpen \/ CsvRow \/ CsvReturn

----------------------------------------------------------------------------
(* _call_anthropic *)

\* the largest number of content blocks of a response
MaxBlocks == 3

\* the longest part of an error body that the raised message quotes
ErrorBodyMax == 300

\* the JSON body of a response: whether it has the key "content", and the blocks there
NoData == [has_content |-> FALSE, content |-> <<>>]

\* a content block: its "type" ("<None>" when the key is missing), its "text" when it is
\* a text block, and what it carries under other keys
TextBlocks ==
  { [type |-> "text", text |-> t, other |-> <<>>] :
      t \in { <<"o", "k">>, <<"a", NL, "b">>, <<>> } }
OtherBlocks ==
  { [type |-> "thinking", text |-> <<>>, other |-> <<"h", "m">>],
    [type |-> "tool_use", text |-> <<>>, other |-> <<"i", "d">>],
    [type |-> "<None>", text |-> <<>>, other |-> <<"x">>] }

Bodies ==
  { [has_content |-> TRUE, content |-> bs] :
      bs \in UNION {[1..n -> TextBlocks \cup OtherBlocks] : n \in 0..MaxBlocks} }
    \cup {NoData}

\* the responses: a success with a JSON body, or an error status with a text body
Responses ==
  { [status |-> <<"2", "0", "0">>, body |-> <<>>, json |-> d] : d \in Bodies }
    \cup { [status |-> st, body |-> b, json |-> NoData] :
             st \in { <<"5", "2", "9">>, <<"4", "0", "1">> },
             b \in { <<"o", "v", "e", "r", "l", "o", "a", "d", "e", "d">>, LongText(ErrorBodyMax + 2) } }

\* resp.is_success: a 2xx status
IsSuccess(r) == Head(r.status) = "2"

NoKeyMessage ==
  <<"A", "N", "T", "H", "R", "O", "P", "I", "C", "_", "A", "P", "I", "_", "K", "E", "Y", " ", "n", "o", "t", " ", "c", "o", "n", "f", "i", "g", "u", "r", "e", "d", ".", " ", "S", "e", "t", " ", "i", "t", " ", "i", "n", " ", "y", "o", "u", "r", " ", "e", "n", "v", "i", "r", "o", "n", "m", "e", "n", "t", ".">>

\* f"Anthropic API error {resp.status_code}: {error_body[:300]}"
ApiErrorMessage(r) ==
  <<"A", "n", "t", "h", "r", "o", "p", "i", "c", " ", "A", "P", "I", " ", "e", "r", "r", "o", "r", " ">>
    \o r.status \o <<":", " ">> \o Upto(r.body, ErrorBodyMax)

\* the texts of all the blocks, whatever their type
TextPartsUnfiltered(blocks) == [n \in 1..Len(blocks) |-> blocks[n].text]

\* [block["text"] for block in data.get("content", []) if block.get("type") == "text"]
RECURSIVE TextParts(_)
TextParts(blocks) ==
  IF blocks = <<>> THEN <<>>
  ELSE (IF Head(blocks).type = "text" THEN <<Head(blocks).text>> ELSE <<>>)
         \o TextParts(Tail(blocks))

NoReply == [raised |-> FALSE, text |-> <<>>]

CallStart ==
  /\ api_key \in {<<>>, <<"s", "k">>}
  /\ resp \in Responses
  /\ data = NoData
  /\ text_parts = <<>>
  /\ reply = NoReply
  /\ apc = "call"

CallIdle ==
  /\ api_key = <<>>
  /\ resp = [status |-> <<>>, body |-> <<>>, json |-> NoData]
  /\ data = NoData
  /\ text_parts = <<>>
  /\ reply = NoReply
  /\ apc = "off"

\* lines 17-18: no key, no call
CheckKey ==
  /\ apc = "call"
  /\ IF api_key = <<>>
       THEN reply' = [raised |-> TRUE, text |-> NoKeyMessage] /\ apc' = "raised"
       ELSE reply' = reply /\ apc' = "post"
  /\ UNCHANGED <<api_key, resp, data, text_parts>>

\* lines 36-42: the request; an error status raises, a success is decoded
Post ==
  /\ apc = "post"
  /\ IF ~IsSuccess(resp)
       THEN /\ reply' = [raised |-> TRUE, text |-> ApiErrorMessage(resp)]
            /\ apc' = "raised"
            /\ UNCHANGED data
       ELSE /\ data' = resp.json
            /\ apc' = "extract"
            /\ UNCHANGED reply
  /\ UNCHANGED <<api_key, resp, text_parts>>

\* lines 44-47: the text blocks, joined with newlines
Extract ==
  /\ apc = "extract"
  /\ text_parts' = TextParts(IF data.has_content THEN data.content ELSE <<>>)
  /\ reply' = [raised |-> FALSE, text |-> Join(<<NL>>, text_parts')]
  /\ apc' = "return"
  /\ UNCHANGED <<api_key, resp, data>>

CallStep == CheckKey \/ Post \/ Extract

----------------------------------------------------------------------------
(* generate_deliverable and the generators of lessons/ai.py *)

risk_register == <<"r", "i", "s", "k", "_", "r", "e", "g", "i", "s", "t", "e", "r">>
staffing_estimate == <<"s", "t", "a", "f", "f", "i", "n", "g", "_", "e", "s", "t", "i", "m", "a", "t", "e">>
spec_gaps == <<"s", "p", "e", "c", "_", "g", "a", "p", "s">>
executive_narrative == <<"e", "x", "e", "c", "u", "t", "i", "v", "e", "_", "n", "a", "r", "r", "a", "t", "i", "v", "e">>

\* an accepted set with a name the dispatcher does not know
DELIVERABLE_TYPES_with_cost_estimate ==
  {risk_register, staffing_estimate, spec_gaps, executive_narrative, <<"c", "o", "s", "t", "_", "e", "s", "t", "i", "m", "a", "t", "e">>}

\* ai.py 172-177
DELIVERABLE_TYPES == {risk_register, staffing_estimate, spec_gaps, executive_narrative}

\* ai.py 186-191: the generators dict of generate_deliverable
generators ==
  (risk_register :> "_generate_risk_register")
    @@ (staffing_estimate :> "_generate_staffing_estimate")
    @@ (spec_gaps :> "_generate_spec_gaps")
    @@ (executive_narrative :> "_generate_executive_narrative")

\* the generators that make a text-generation call, and the title each gives
GeneratorTitle ==
  ("_generate_risk_register" :> <<"R", "i", "s", "k", " ", "R", "e", "g", "i", "s", "t", "e", "r">>)
    @@ ("_generate_staffing_estimate" :> <<"Q", "u", "a", "l", "i", "t", "y", " ", "S", "t", "a", "f", "f", "i", "n", "g", " ", "E", "s", "t", "i", "m", "a", "t", "e">>)

\* what a call of a Python function gives: a value, or an exception
Returns(v) == [raised |-> "", value |-> v]
Raises(e) == [raised |-> e, value |-> NoResult]
NotCalled == [raised |-> "<unset>", value |-> NoResult]

error_key == <<"e", "r", "r", "o", "r">>
title_key == <<"t", "i", "t", "l", "e">>
status_key == <<"s", "t", "a", "t", "u", "s">>
message_key == <<"m", "e", "s", "s", "a", "g", "e">>
deliverables_key == <<"d", "e", "l", "i", "v", "e", "r", "a", "b", "l", "e", "s">>

\* key in d, for a dict d
HasKey(d, key) == d.t = "obj" /\ \E n \in 1..Len(d.k) : d.k[n] = key

\* d[key], for a key of the dict d
DictGet(d, key) == d.v[CHOOSE n \in 1..Len(d.k) : d.k[n] = key]

\* {"title": title, "status": "error", "message": message}
ErrorDeliverable(title, message) ==
  JObj(<<title_key, status_key, message_key>>, <<JStr(title), JStr(<<"e", "r", "r", "o", "r">>), message>>)

\* a generator that puts its title on whatever dict the parser returned
ShapedWithoutErrorCheck(title, parsed) ==
  IF parsed.t # "obj" THEN Raises("TypeError")
  ELSE Returns(DictSet(parsed, title_key, JStr(title)))

\* ai.py 281-292 and 424-437: what a generator makes of the parser's result.
\* `"error" in result` raises TypeError on None, a number or a boolean; on a
\* string or a list it is a substring or membership test, and whichever way
\* it goes the indexing result["error"] or the assignment result["title"]
\* that follows raises TypeError.
Shaped(title, parsed) ==
  IF parsed.t # "obj" THEN Raises("TypeError")
  ELSE IF HasKey(parsed, error_key)
    THEN Returns(ErrorDeliverable(title, DictGet(parsed, error_key)))
  ELSE Returns(DictSet(parsed, title_key, JStr(title)))

\* ai.py 440-459: the two generators that make no call
Stub(generator) ==
  IF generator = "_generate_spec_gaps"
    THEN JObj(<<title_key, status_key, message_key>>,
              <<JStr(<<"S", "p", "e", "c", "i", "f", "i", "c", "a", "t", "i", "o", "n", " ", "G", "a", "p", "s">>), JStr(<<"s", "t", "u", "b">>),
                JStr(<<"S", "p", "e", "c", "i", "f", "i", "c", "a", "t", "i", "o", "n", " ", "g", "a", "p", " ", "a", "n", "a", "l", "y", "s", "i", "s", " ", "n", "o", "t", " ", "y", "e", "t", " ", "i", "m", "p", "l", "e", "m", "e", "n", "t", "e", "d", ".", " ", "W", "i", "l", "l", " ", "f", "l", "a", "g", " ", "c", "o", "d", "e", " ", "a", "n", "d", " ", "s", "t", "a", "n", "d", "a", "r", "d", " ", "r", "i", "s", "k", "s", " ", "f", "r", "o", "m", " ", "0", " ", "i", "d", "e", "n", "t", "i", "f", "i", "e", "d", " ", "g", "a", "p", "s", ".">>)>>)
    ELSE JObj(<<title_key, status_key, message_key>>,
              <<JStr(<<"E", "x", "e", "c", "u", "t", "i", "v", "e", " ", "S", "u", "m", "m", "a", "r", "y">>), JStr(<<"s", "t", "u", "b">>),
                JStr(<<"E", "x", "e", "c", "u", "t", "i", "v", "e", " ", "n", "a", "r", "r", "a", "t", "i", "v", "e", " ", "g", "e", "n", "e", "r", "a", "t", "i", "o", "n", " ", "n", "o", "t", " ", "y", "e", "t", " ", "i", "m", "p", "l", "e", "m", "e", "n", "t", "e", "d", ".", " ", "W", "i", "l", "l", " ", "p", "r", "o", "d", "u", "c", "e", " ", "a", " ", "o", "n", "e", "-", "p", "a", "g", "e", " ", "n", "a", "r", "r", "a", "t", "i", "v", "e", " ", "s", "u", "m", "m", "a", "r", "i", "z", "i", "n", "g", " ", "t", "h", "e", " ", "s", "c", "o", "p", "e", " ", "a", "n", "a", "l", "y", "s", "i", "s", " ", "f", "o", "r", " ", "b", "i", "d", " ", "r", "e", "v", "i", "e", "w", ".">>)>>)

\* bool(v) of a decoded value
Truthy(v) ==
  CASE v.t = "obj" -> v.k # <<>>
    [] v.t = "arr" -> v.v # <<>>
    [] v.t = "str" -> v.s # <<>>
    [] v.t = "num" -> \E n \in 1..Len(v.s) : v.s[n] \in Digits \ {"0"}
    [] OTHER -> v.s \notin {<<"n", "u", "l", "l">>, <<"f", "a", "l", "s", "e">>}

EmptyDict == JObj(<<>>, <<>>)

\* ai.py 128-129: results = sow_analysis.results or {}; results.get(...) raises
\* AttributeError when the stored results are not a dict
ContextRaises(stored) == Truthy(stored) /\ stored.t # "obj"

\* views.py 324-328: the results document with the deliverable put under its type
WithDeliverable(stored, deliverable_type, deliverable) ==
  LET results == IF Truthy(stored) THEN stored ELSE EmptyDict
      old == IF HasKey(results, deliverables_key)
               THEN DictGet(results, deliverables_key) ELSE EmptyDict
  IN DictSet(results, deliverables_key, DictSet(old, deliverable_type, deliverable))

----------------------------------------------------------------------------
(* The requests of the analyze_sow and generate_deliverable views *)

Requests == {"r1", "r2"}

\* the response texts of the text-generation call
ReplyTexts ==
  { <<"{", Q, "r", "i", "s", "k", "s", Q, ":", "[", "{", Q, "a", Q, ":", "1", "}", "]", ",", Q, "s", "u", "m", "m", "a", "r", "y", Q, ":", Q, "o", "k", Q, "}">>,
    <<"{", Q, "p", "o", "s", "i", "t", "i", "o", "n", "s", Q, ":", "[", "]", ",", Q, "e", "r", "r", "o", "r", Q, ":", Q, "n", "o", "n", "e", Q, "}">>,
    <<"{", Q, "r", "i", "s", "k", "s", Q, ":", "[", "{", Q, "a", Q, ":", "1", "}", ",", "{", Q, "b">>,
    <<"n", "u", "l", "l">>,
    <<"7">>,
    <<Q, "n", "o", " ", "e", "r", "r", "o", "r", Q>>,
    <<"[", "1", "]">>,
    <<"S", "o", "r", "r", "y">>,
    <<>> }

\* what the text-generation call can come to
CallOutcomes ==
  {[kind |-> k, text |-> <<>>] : k \in {"no_key", "timeout", "status"}}
    \cup {[kind |-> "text", text |-> t] : t \in ReplyTexts}

NoOutcome == [kind |-> "none", text |-> <<>>]

\* the deliverable types of the requests: the four names and two others
TypePool == DELIVERABLE_TYPES \cup {<<>>, <<"g", "a", "n", "t", "t", "_", "c", "h", "a", "r", "t">>}

\* the organization of an analyze_sow request, the analysis of a
\* generate_deliverable request: none given, one of the user's, one that is
\* not the user's or does not exist
Targets == {"missing", "own", "foreign"}

RequestPool ==
  {[view |-> "analyze_sow", target |-> t, sow_text |-> s, deliverable_type |-> <<>>] :
     t \in Targets, s \in BOOLEAN}
    \cup {[view |-> "generate_deliverable", target |-> t, sow_text |-> FALSE,
           deliverable_type |-> d] : t \in Targets, d \in TypePool}

\* the results of the analysis the deliverables are asked for
StoredResults == {EmptyDict, JObj(<<<<"s", "u", "m", "m", "a", "r", "y">>>>, <<JStr(<<"o", "k">>)>>), JArr(<<JNum(<<"1">>)>>)}

NoResponse == [status |-> 0, error |-> FALSE, body |-> NoResult]
ErrorResponse(code) == [status |-> code, error |-> TRUE, body |-> NoResult]
OkResponse(body) == [status |-> 200, error |-> FALSE, body |-> body]

\* the id of the user's analysis the requests name
TheAnalysis == 1

ServeStart ==
  /\ analyses \in {<<s>> : s \in StoredResults}
  /\ request \in [Requests -> RequestPool]
  /\ spc = [r \in Requests |-> "received"]
  /\ loaded = [r \in Requests |-> NoResult]
  /\ posts = [r \in Requests |-> 0]
  /\ outcome = [r \in Requests |-> NoOutcome]
  /\ content = [r \in Requests |-> NotCalled]
  /\ response = [r \in Requests |-> NoResponse]

ServeIdle ==
  /\ analyses = <<>>
  /\ request = <<>>
  /\ spc = <<>>
  /\ loaded = <<>>
  /\ posts = <<>>
  /\ outcome = <<>>
  /\ content = <<>>
  /\ response = <<>>

\* the view answers
Respond(r, given) ==
  /\ response' = [response EXCEPT ![r] = given]
  /\ spc' = [spc EXCEPT ![r] = "done"]

\* views.py 236-249: analyze_sow checks its arguments and finds the organization
\* (the Http404 of get_object_or_404 is caught by the view's except clause)
AnalyzeValidate(r) ==
  /\ spc[r] = "received" /\ request[r].view = "analyze_sow"
  /\ IF request[r].target = "missing" THEN Respond(r, ErrorResponse(400))
     ELSE IF ~request[r].sow_text THEN Respond(r, ErrorResponse(400))
     ELSE IF request[r].target = "foreign" THEN Respond(r, ErrorResponse(500))
     ELSE spc' = [spc EXCEPT ![r] = "call"] /\ UNCHANGED response
  /\ UNCHANGED <<analyses, request, loaded, posts, outcome, content>>

\* views.py 286-300: generate_deliverable checks its arguments and loads the analysis
DeliverValidate(r) ==
  /\ spc[r] = "received" /\ request[r].view = "generate_deliverable"
  /\ IF request[r].target = "missing"
       THEN Respond(r, ErrorResponse(400)) /\ UNCHANGED loaded
     ELSE IF request[r].deliverable_type \notin DELIVERABLE_TYPES
       THEN Respond(r, ErrorResponse(400)) /\ UNCHANGED loaded
     ELSE IF request[r].target = "foreign"
       THEN Respond(r, ErrorResponse(404)) /\ UNCHANGED loaded
     ELSE /\ loaded' = [loaded EXCEPT ![r] = analyses[TheAnalysis]]
          /\ spc' = [spc EXCEPT ![r] = "dispatch"]
          /\ UNCHANGED response
  /\ UNCHANGED <<analyses, request, posts, outcome, content>>

\* the function of ai.py has returned or raised
Finish(r, c) ==
  /\ content' = [content EXCEPT ![r] = c]
  /\ spc' = [spc EXCEPT ![r] = "handle"]

\* views.py 317-318, ai.py 120-195: _build_analysis_context, then the dispatch
\* of generate_deliverable; a generator without a call returns at once
Dispatch(r) ==
  /\ spc[r] = "dispatch"
  /\ IF ContextRaises(loaded[r]) THEN Finish(r, Raises("AttributeError"))
     ELSE IF request[r].deliverable_type \notin DOMAIN generators
       THEN Finish(r, Raises("ValueError"))
     ELSE IF generators[request[r].deliverable_type] \in DOMAIN GeneratorTitle
       THEN spc' = [spc EXCEPT ![r] = "call"] /\ UNCHANGED content
     ELSE Finish(r, Returns(Stub(generators[request[r].deliverable_type])))
  /\ UNCHANGED <<analyses, request, loaded, posts, outcome, response>>

\* a call that answers a failure as an empty text
CallAnthropicMasking(r) ==
  /\ spc[r] = "call"
  /\ \E o \in CallOutcomes :
       /\ outcome' = [outcome EXCEPT ![r] = o]
       /\ posts' = [posts EXCEPT ![r] = IF o.kind = "no_key" THEN @ ELSE @ + 1]
       /\ spc' = [spc EXCEPT ![r] = "parse"]
       /\ UNCHANGED content
  /\ UNCHANGED <<analyses, request, loaded, response>>

\* a call that posts again after a failure
CallAnthropicRetrying(r) ==
  /\ spc[r] = "call"
  /\ \E o \in CallOutcomes :
       /\ outcome' = [outcome EXCEPT ![r] = o]
       /\ posts' = [posts EXCEPT ![r] = IF o.kind = "no_key" THEN @ ELSE @ + 1]
       /\ IF o.kind = "text"
            THEN spc' = [spc EXCEPT ![r] = "parse"] /\ UNCHANGED content
          ELSE IF o.kind = "no_key" \/ posts[r] >= 1
            THEN Finish(r, Raises(IF o.kind = "timeout" THEN "TimeoutException" ELSE "ValueError"))
          ELSE UNCHANGED <<spc, content>>
  /\ UNCHANGED <<analyses, request, loaded, response>>

\* ai.py 15-47: _call_anthropic, called once by analyze_sow (line 546) and by
\* either generator (lines 278, 419): without a key it raises before any post;
\* otherwise it posts once, and raises on a timeout or a non-success status
CallAnthropic(r) ==
  /\ spc[r] = "call"
  /\ \E o \in CallOutcomes :
       /\ outcome' = [outcome EXCEPT ![r] = o]
       /\ posts' = [posts EXCEPT ![r] = IF o.kind = "no_key" THEN @ ELSE @ + 1]
       /\ IF o.kind = "text"
            THEN spc' = [spc EXCEPT ![r] = "parse"] /\ UNCHANGED content
            ELSE Finish(r, Raises(IF o.kind = "timeout" THEN "TimeoutException" ELSE "ValueError"))
  /\ UNCHANGED <<analyses, request, loaded, response>>

\* what the function the view called makes of the parser's result
Produced(req, parsed) ==
  IF req.view = "analyze_sow" THEN Returns(parsed)
  ELSE Shaped(GeneratorTitle[generators[req.deliverable_type]], parsed)

\* ai.py 547: analyze_sow returns the parser's result; ai.py 279-292, 420-437:
\* a generator shapes it
ParseReply(r) ==
  /\ spc[r] = "parse"
  /\ Finish(r, Produced(request[r], parse_json_response(outcome[r].text)))
  /\ UNCHANGED <<analyses, request, loaded, posts, outcome, response>>

\* views.py 266-279: analyze_sow stores the results as a new SOWAnalysis and
\* answers with them, or answers the exception it caught (results is a JSONField
\* that is not nullable, models.py 127: storing None raises IntegrityError)
AnalyzeStore(r) ==
  /\ spc[r] = "handle" /\ request[r].view = "analyze_sow"
  /\ IF content[r].raised # "" \/ content[r].value = None
       THEN Respond(r, ErrorResponse(500)) /\ UNCHANGED analyses
       ELSE /\ analyses' = Append(analyses, content[r].value)
            /\ Respond(r, OkResponse(content[r].value))
  /\ UNCHANGED <<request, loaded, posts, outcome, content>>

\* views.py 319-334: generate_deliverable answers the exception it caught, or
\* puts the deliverable into the results it loaded and saves them
DeliverStore(r) ==
  /\ spc[r] = "handle" /\ request[r].view = "generate_deliverable"
  /\ IF content[r].raised # ""
       THEN Respond(r, ErrorResponse(500)) /\ UNCHANGED analyses
       ELSE /\ analyses' = [analyses EXCEPT ![TheAnalysis] =
                 WithDeliverable(loaded[r], request[r].deliverable_type, content[r].value)]
            /\ Respond(r, OkResponse(content[r].value))
  /\ UNCHANGED <<request, loaded, posts, outcome, content>>

ServeStep ==
  \E r \in Requests :
    \/ AnalyzeValidate(r)
    \/ DeliverValidate(r)
    \/ Dispatch(r)
    \/ CallAnthropic(r)
    \/ ParseReply(r)
    \/ AnalyzeStore(r)
    \/ DeliverStore(r)

----------------------------------------------------------------------------
(* LessonViewSet.import_file of lessons/views.py *)

\* uploaded.name.rsplit(".", 1)[-1].lower()
Extension(name) ==
  LET dots == {n \in 1..Len(name) : name[n] = "."}
  IN IF dots = {} THEN Lower(name)
     ELSE Lower(SubSeq(name, (CHOOSE n \in dots : \A m \in dots : m <= n) + 1, Len(name)))

\* views.py 135, 137: the extensions of each importer
XlsxExtensions == {<<"x", "l", "s", "x">>, <<"x", "l", "s">>, <<"x", "l", "s", "m">>}
CsvExtensions == {<<"c", "s", "v">>, <<"t", "s", "v">>}

\* the names of the uploaded files
FileNames ==
  { <<"l", "e", "s", "s", "o", "n", "s", ".", "x", "l", "s", "x">>, <<"Q", "3", ".", "L", "e", "s", "s", "o", "n", "s", ".", "X", "L", "S">>, <<"b", "o", "o", "k", ".", "x", "l", "s", "m">>, <<"e", "x", "p", "o", "r", "t", ".", "c", "s", "v">>, <<"e", "x", "p", "o", "r", "t", ".", "T", "S", "V">>,
    <<"r", "e", "p", "o", "r", "t", ".", "p", "d", "f">>, <<"l", "e", "s", "s", "o", "n", "s">>, <<"c", "s", "v">>, <<"a", "r", "c", "h", "i", "v", "e", ".", "c", "s", "v", ".", "z", "i", "p">> }

\* the import requests: the organization field (none, one of the user's, one
\* that is not), whether a file is attached, and the file's name
UploadPool ==
  {[organization |-> o, file |-> f, name |-> n] :
     o \in {"missing", "own", "foreign"}, f \in BOOLEAN, n \in FileNames}

\* the request reaches an importer
ReachesImporter(u) ==
  /\ u.organization = "own" /\ u.file
  /\ Extension(u.name) \in XlsxExtensions \cup CsvExtensions

NoAnswer == [status |-> 0, error |-> <<>>, imported |-> -1, total_in_file |-> -1]
ErrorAnswer(code, message) ==
  [status |-> code, error |-> message, imported |-> -1, total_in_file |-> -1]
ImportedAnswer(n, total) ==
  [status |-> 200, error |-> <<>>, imported |-> n, total_in_file |-> total]

organization_required == <<"o", "r", "g", "a", "n", "i", "z", "a", "t", "i", "o", "n", " ", "i", "s", " ", "r", "e", "q", "u", "i", "r", "e", "d">>
no_file_uploaded == <<"N", "o", " ", "f", "i", "l", "e", " ", "u", "p", "l", "o", "a", "d", "e", "d">>
not_found == <<"N", "o", "t", " ", "f", "o", "u", "n", "d", ".">>
no_valid_lessons == <<"N", "o", " ", "v", "a", "l", "i", "d", " ", "l", "e", "s", "s", "o", "n", "s", " ", "f", "o", "u", "n", "d", " ", "i", "n", " ", "f", "i", "l", "e">>
UnsupportedMessage(ext) == <<"U", "n", "s", "u", "p", "p", "o", "r", "t", "e", "d", " ", "f", "i", "l", "e", " ", "t", "y", "p", "e", ":", " ", ".">> \o ext

\* a request arrives with its file: a workbook or the rows of a delimited
\* text; the Lesson table is empty
UploadStart ==
  /\ upload \in UploadPool
  /\ IF ~ReachesImporter(upload)
       THEN wb = <<>> /\ rows = <<>>
       ELSE IF Extension(upload.name) \in XlsxExtensions
         THEN wb \in Workbooks /\ rows = <<>>
         ELSE wb = <<>> /\ rows \in Files("csv")
  /\ kind = "none"
  /\ sheet = 0
  /\ raw_headers = <<>>
  /\ col_map = [f \in {} |-> -1]
  /\ row_i = 0
  /\ lessons = NoRecords
  /\ error = NotReturned
  /\ ipc = "off"
  /\ lesson_table = <<>>
  /\ created = 0
  /\ answer = NoAnswer
  /\ upc = "received"

UploadIdle ==
  /\ upload = <<>>
  /\ lesson_table = <<>>
  /\ created = 0
  /\ answer = NoAnswer
  /\ upc = "off"

\* views.py 124-139: the checks of the request, then the importer of the extension
UploadReceive ==
  /\ upc = "received"
  /\ IF upload.organization = "missing"
       THEN answer' = ErrorAnswer(400, organization_required) /\ upc' = "done"
              /\ UNCHANGED <<kind, ipc>>
     ELSE IF upload.organization = "foreign"
       THEN answer' = ErrorAnswer(404, not_found) /\ upc' = "done" /\ UNCHANGED <<kind, ipc>>
     ELSE IF ~upload.file
       THEN answer' = ErrorAnswer(400, no_file_uploaded) /\ upc' = "done"
              /\ UNCHANGED <<kind, ipc>>
     ELSE IF Extension(upload.name) \in XlsxExtensions
       THEN kind' = "xlsx" /\ ipc' = "call" /\ upc' = "parse" /\ UNCHANGED answer
     ELSE IF Extension(upload.name) \in CsvExtensions
       THEN kind' = "csv" /\ ipc' = "call" /\ upc' = "parse" /\ UNCHANGED answer
     ELSE answer' = ErrorAnswer(400, UnsupportedMessage(Extension(upload.name)))
            /\ upc' = "done" /\ UNCHANGED <<kind, ipc>>
  /\ UNCHANGED <<upload, lesson_table, created, wb, sheet, rows, raw_headers, col_map,
                 row_i, lessons, error>>

\* views.py 135-138: parse_xlsx or parse_csv runs
UploadParse ==
  /\ upc = "parse"
  /\ ImportStep
  /\ UNCHANGED <<upload, lesson_table, created, answer, upc>>

\* views.py 141-144: the importer's error, or no record
UploadCheck ==
  /\ upc = "parse" /\ ipc = "return"
  /\ IF error # NoError
       THEN answer' = ErrorAnswer(400, error) /\ upc' = "done"
     ELSE IF lessons = <<>>
       THEN answer' = ErrorAnswer(400, no_valid_lessons) /\ upc' = "done"
     ELSE upc' = "create" /\ UNCHANGED answer
  /\ UNCHANGED <<upload, lesson_table, created, importVars>>

\* a loop that does not create the last record
UploadCreateButLast ==
  /\ upc = "create" /\ created < Len(lessons)
  /\ lesson_table' =
       IF created + 1 = Len(lessons) /\ created > 0 THEN lesson_table
       ELSE Append(lesson_table,
              [id |-> Len(lesson_table) + 1, organization |-> upload.organization,
               data |-> lessons[created + 1]])
  /\ created' = created + 1
  /\ UNCHANGED <<upload, answer, upc, importVars>>

\* views.py 148-154: Lesson.objects.create for the next record
UploadCreate ==
  /\ upc = "create" /\ created < Len(lessons)
  /\ lesson_table' =
       Append(lesson_table,
              [id |-> Len(lesson_table) + 1, organization |-> upload.organization,
               data |-> lessons[created + 1]])
  /\ created' = created + 1
  /\ UNCHANGED <<upload, answer, upc, importVars>>

\* views.py 156-160
UploadRespond ==
  /\ upc = "create" /\ created = Len(lessons)
  /\ answer' = ImportedAnswer(created, Len(lessons))
  /\ upc' = "done"
  /\ UNCHANGED <<upload, lesson_table, created, importVars>>

UploadStep == UploadReceive \/ UploadParse \/ UploadCheck \/ UploadCreate \/ UploadRespond

----------------------------------------------------------------------------
(* LessonViewSet.bulk_delete of lessons/views.py *)

\* the largest lesson id of the table
MaxLessons == 2

Users == {"alice", "bob"}

\* Organization.created_by of the two organizations
OrgOwner == [org_a |-> "alice", org_b |-> "bob"]

BulkRequests == {"b1", "b2"}

\* the tables: each id from 1 to MaxLessons is absent or a lesson of one organization
Tables ==
  LET choices == [1..MaxLessons -> {"absent"} \cup DOMAIN OrgOwner]
      present(c) == {i \in 1..MaxLessons : c[i] # "absent"}
      nth(S, n) == CHOOSE i \in S : Cardinality({j \in S : j < i}) = n - 1
  IN { [n \in 1..Cardinality(present(c)) |->
          [id |-> nth(present(c), n), organization |-> c[nth(present(c), n)], data |-> <<>>]] :
       c \in choices }

\* request.data.get("ids", []): a list of up to two ids (ids beyond the table
\* and a repeated id among them), or something that is not a list
IdsPool ==
  {[is_list |-> FALSE, items |-> <<>>], [is_list |-> TRUE, items |-> <<>>]}
    \cup {[is_list |-> TRUE, items |-> <<a>>] : a \in 1..(MaxLessons + 1)}
    \cup {[is_list |-> TRUE, items |-> <<a, b>>] : a, b \in 1..(MaxLessons + 1)}

\* set(ids)
IdSet(ids) == {ids.items[n] : n \in 1..Len(ids.items)}

NoBulkReply == [status |-> 0, deleted |-> -1, missing |-> {}]

\* a filter on the ids alone
MatchesAnyOwner(r, row) == row.id \in IdSet(bulk[r].ids)

\* views.py 78-80: Lesson.objects.filter(id__in=ids, organization__created_by=request.user)
Matches(r, row) ==
  /\ row.id \in IdSet(bulk[r].ids)
  /\ OrgOwner[row.organization] = bulk[r].user

\* the rows of the queryset, evaluated on the table as it is now
Queryset(r) ==
  LET hit(row) == Matches(r, row)
  IN SelectSeq(lesson_table, hit)

BulkStart ==
  /\ lesson_table \in Tables
  /\ bulk \in [BulkRequests -> [user : Users, ids : IdsPool]]
  /\ bpc = [r \in BulkRequests |-> "received"]
  /\ found = [r \in BulkRequests |-> {}]
  /\ count = [r \in BulkRequests |-> -1]
  /\ bulk_reply = [r \in BulkRequests |-> NoBulkReply]

BulkIdle ==
  /\ bulk = <<>>
  /\ bpc = <<>>
  /\ found = <<>>
  /\ count = <<>>
  /\ bulk_reply = <<>>

\* views.py 75-88: the ids argument, the ids found, the ids missing
BulkCheck(r) ==
  /\ bpc[r] = "received"
  /\ IF ~bulk[r].ids.is_list \/ bulk[r].ids.items = <<>>
       THEN /\ bulk_reply' = [bulk_reply EXCEPT ![r] = [NoBulkReply EXCEPT !.status = 400]]
            /\ bpc' = [bpc EXCEPT ![r] = "done"]
            /\ UNCHANGED found
       ELSE LET ids_found == {Queryset(r)[n].id : n \in 1..Len(Queryset(r))}
                missing == IdSet(bulk[r].ids) \ ids_found
            IN /\ found' = [found EXCEPT ![r] = ids_found]
               /\ IF missing # {}
                    THEN /\ bulk_reply' = [bulk_reply EXCEPT ![r] =
                              [status |-> 403, deleted |-> -1, missing |-> missing]]
                         /\ bpc' = [bpc EXCEPT ![r] = "done"]
                    ELSE /\ bpc' = [bpc EXCEPT ![r] = "count"]
                         /\ UNCHANGED bulk_reply
  /\ UNCHANGED <<lesson_table, bulk, count>>

\* views.py 88: count = qs.count()
BulkCount(r) ==
  /\ bpc[r] = "count"
  /\ count' = [count EXCEPT ![r] = Len(Queryset(r))]
  /\ bpc' = [bpc EXCEPT ![r] = "delete"]
  /\ UNCHANGED <<lesson_table, bulk, found, bulk_reply>>

\* views.py 89-90: qs.delete(), the response
BulkDelete(r) ==
  /\ bpc[r] = "delete"
  /\ LET stays(row) == ~Matches(r, row)
     IN lesson_table' = SelectSeq(lesson_table, stays)
  /\ bulk_reply' = [bulk_reply EXCEPT ![r] =
       [status |-> 200, deleted |-> count[r], missing |-> {}]]
  /\ bpc' = [bpc EXCEPT ![r] = "done"]
  /\ UNCHANGED <<bulk, found, count>>

BulkStep == \E r \in BulkRequests : BulkCheck(r) \/ BulkCount(r) \/ BulkDelete(r)

----------------------------------------------------------------------------
(* The specifications: one per component, the other components at rest *)

JsonInit == JsonStart /\ ColIdle /\ ClassIdle /\ ImportIdle /\ CallIdle /\ ServeIdle /\ UploadIdle /\ BulkIdle
JsonNext == JsonStep /\ UNCHANGED <<colVars, classVars, importVars, callVars, serveVars, uploadVars, bulkVars>>
SpecJson == JsonInit /\ [][JsonNext]_vars

JsonIdle ==
  /\ inp = [kind |-> "none", head |-> <<>>, field |-> <<>>, elems |-> <<>>, doc |-> <<>>,
            fence |-> "none", cut |-> 0]
  /\ text = <<>>
  /\ clean = <<>>
  /\ repaired = <<>>
  /\ pos = -1
  /\ pc = "off"
  /\ result = NoResult

ColInit == ColStart /\ JsonIdle /\ ClassIdle /\ ImportIdle /\ CallIdle /\ ServeIdle /\ UploadIdle /\ BulkIdle
ColNext == Resolve /\ UNCHANGED <<jsonVars, classVars, importVars, callVars, serveVars, uploadVars, bulkVars>>
SpecCol == ColInit /\ [][ColNext]_vars

ClassInit == ClassStart /\ JsonIdle /\ ColIdle /\ ImportIdle /\ CallIdle /\ ServeIdle /\ UploadIdle /\ BulkIdle
ClassNext == Classify /\ UNCHANGED <<jsonVars, colVars, importVars, callVars, serveVars, uploadVars, bulkVars>>
SpecClass == ClassInit /\ [][ClassNext]_vars

ImportInit == ImportStart /\ JsonIdle /\ ColIdle /\ ClassIdle /\ CallIdle /\ ServeIdle /\ UploadIdle /\ BulkIdle
ImportNext == ImportStep /\ UNCHANGED <<jsonVars, colVars, classVars, callVars, serveVars, uploadVars, bulkVars>>
SpecImport == ImportInit /\ [][ImportNext]_vars

CallInit == CallStart /\ JsonIdle /\ ColIdle /\ ClassIdle /\ ImportIdle /\ ServeIdle /\ UploadIdle /\ BulkIdle
CallNext == CallStep /\ UNCHANGED <<jsonVars, colVars, classVars, importVars, serveVars, uploadVars, bulkVars>>
SpecCall == CallInit /\ [][CallNext]_vars

ServeInit == ServeStart /\ JsonIdle /\ ColIdle /\ ClassIdle /\ ImportIdle /\ CallIdle /\ UploadIdle /\ BulkIdle
ServeNext == ServeStep /\ UNCHANGED <<jsonVars, colVars, classVars, importVars, callVars, uploadVars, bulkVars>>
SpecServe == ServeInit /\ [][ServeNext]_vars

UploadInit == UploadStart /\ JsonIdle /\ ColIdle /\ ClassIdle /\ CallIdle /\ ServeIdle /\ BulkIdle
UploadNext == UploadStep /\ UNCHANGED <<jsonVars, colVars, classVars, callVars, serveVars, bulkVars>>
SpecUpload == UploadInit /\ [][UploadNext]_vars

BulkInit ==
  /\ BulkStart /\ upload = <<>> /\ created = 0 /\ answer = NoAnswer /\ upc = "off"
  /\ JsonIdle /\ ColIdle /\ ClassIdle /\ ImportIdle /\ CallIdle /\ ServeIdle
BulkNext ==
  /\ BulkStep
  /\ UNCHANGED <<jsonVars, colVars, classVars, importVars, callVars, serveVars,
                 upload, created, answer, upc>>
SpecBulk == BulkInit /\ [][BulkNext]_vars

----------------------------------------------------------------------------
(* Claims about _parse_json_response *)

\* the response was cut off: some of it did not arrive
Truncated == inp.cut < Len(Response(inp.doc, inp.fence))

\* the Python index, in the response, of the first character of the n-th array element
RECURSIVE ElemStart(_)
ElemStart(n) ==
  IF n = 1
    THEN Len(FenceOpen(inp.fence)) + 1 + Len(inp.head) + Len(inp.field) + 4
    ELSE ElemStart(n - 1) + Len(inp.elems[n - 1]) + 1

\* the cut falls part-way through the n-th element: its first character arrived, its
\* last did not
CutInsideElem(n) ==
  /\ inp.kind = "array"
  /\ n \in 1..Len(inp.elems)
  /\ ElemStart(n) < inp.cut
  /\ inp.cut < ElemStart(n) + Len(inp.elems[n])

\* the array field of a decoded object, as a sequence of decoded elements
FieldOf(obj, field) ==
  IF obj.t = "obj" /\ \E n \in 1..Len(obj.k) : obj.k[n] = field
    THEN obj.v[CHOOSE n \in 1..Len(obj.k) : obj.k[n] = field]
    ELSE NoResult

\* the first n elements of the document, decoded
FirstElems(n) == [m \in 1..n |-> Loads(inp.elems[m]).val]

\* the strings, numbers and literals that occur as values in a decoded value
RECURSIVE Scalars(_)
Scalars(val) ==
  IF val.t \in {"arr", "obj"}
    THEN UNION {Scalars(val.v[n]) : n \in 1..Len(val.v)}
    ELSE {<<val.t, val.s>>}

\* C1: for a text cut part-way through the N-th element of an array-of-objects field
\* ("risks", "matches", "positions"), the array of the returned structure holds exactly
\* the first N-1 complete elements, in order and unchanged, and no N-th element.
C1_TruncatedArrayKeepsCompleteElements ==
  \A n \in 1..MaxElems :
    (Returned /\ CutInsideElem(n)) =>
      FieldOf(result, inp.field) = JArr(FirstElems(n - 1))

\* C2: whenever a parsed structure is returned for a truncated input (here: a document
\* without a fence), every value in it is a value of the document that was complete in
\* the input; no value that the truncation cut off appears in it.
C2_NoCutOffValueInResult ==
  (Returned /\ Truncated /\ inp.fence = "none" /\ pc # "return_error") =>
    Scalars(result) \subseteq Scalars(Loads(inp.doc).val)

\* C3: for a well-formed document, in a code fence or not, the result is exactly the
\* strict parse of the unfenced document, whatever its string values contain.
C3_FencedWellFormedParsesExactly ==
  (Returned /\ ~Truncated) => result = Loads(inp.doc).val

\* C4: for a prefix of a well-formed JSON object with an odd number of double quotes
\* and no "risks" field, the dangling string and the open containers are closed and a
\* parsed structure is returned, not the failure marker.
C4_OddQuotesAlwaysRecovered ==
  ( /\ Returned
    /\ inp.fence = "none"
    /\ Head(inp.doc) = "{"
    /\ Count(text, Q) % 2 = 1
    /\ ~Contains(text, risks_key) ) =>
      pc # "return_error"

\* C5: the function always returns, never None: a parsed structure, or the failure
\* marker exactly when neither the strict parse nor a repair parsed.
C5_NeverNoneMarkerOnlyOnFailure ==
  Returned =>
    /\ result # None
    /\ result # NoResult
    /\ (result = ErrorMarker) <=> (pc = "return_error")

----------------------------------------------------------------------------
(* Claims about find_col *)

\* header number i (Python index) contains term number n
Hit(n, i) == Contains(headers[i + 1], terms[n])

NoHit == \A n \in 1..Len(terms) : \A i \in 0..(Len(headers) - 1) : ~Hit(n, i)

\* C6: find_col returns the leftmost column containing the earliest term that any
\* header contains (term order before column order), and -1 exactly when no header
\* contains any term.
C6_TermOrderBeforeColumnOrder ==
  fpc = "return" =>
    /\ (col = -1) <=> NoHit
    /\ col # -1 =>
         \E n \in 1..Len(terms) :
           /\ col \in 0..(Len(headers) - 1)
           /\ Hit(n, col)
           /\ \A i \in 0..(col - 1) : ~Hit(n, i)
           /\ \A m \in 1..(n - 1) : \A i \in 0..(Len(headers) - 1) : ~Hit(m, i)

\* a later column matching the first term has won over an earlier column matching the
\* second term
C6_Witness ==
  /\ fpc = "return"
  /\ Len(terms) = 2
  /\ col > 0
  /\ Hit(1, col)
  /\ Hit(2, 0)
  /\ ~Hit(1, 0)

----------------------------------------------------------------------------
(* Claims about map_severity and map_discipline *)

KeywordsOf(sev) ==
  SEVERITY_KEYWORDS[CHOOSE n \in 1..Len(SEVERITY_KEYWORDS) : SEVERITY_KEYWORDS[n][1] = sev][2]

HasKeywordOf(sev) == AnyKeyword(Lower(raw), KeywordsOf(sev))

\* C8: map_severity gives Medium for empty input, otherwise the first of Critical, High,
\* Medium with a keyword in the lowercased text, and Medium when there is none; a text
\* with a Critical and a High keyword is Critical, "minor delay of one week" is High.
C8_SeverityByFixedPriority ==
  cpc = "return" =>
    /\ severity = ( IF raw = <<>> THEN "Medium"
                    ELSE IF HasKeywordOf("Critical") THEN "Critical"
                    ELSE IF HasKeywordOf("High") THEN "High"
                    ELSE "Medium" )
    /\ raw = <<"m", "i", "n", "o", "r", " ", "d", "e", "l", "a", "y", " ", "o", "f", " ", "o", "n", "e", " ", "w", "e", "e", "k">> => severity = "High"
    /\ raw = <<"r", "e", "s", "u", "l", "t", "e", "d", " ", "i", "n", " ", "a", " ", "f", "a", "t", "a", "l", "i", "t", "y">> => severity = "Critical"

\* a text with a Critical and a High keyword has been classified Critical
C8_Witness ==
  /\ cpc = "return"
  /\ HasKeywordOf("Critical")
  /\ HasKeywordOf("High")
  /\ severity = "Critical"

\* the entries of DISCIPLINE_MAP whose keyword occurs in the text
OccurringIn(lower) ==
  {n \in 1..Len(DISCIPLINE_MAP) : Contains(lower, DISCIPLINE_MAP[n][1])}

\* the first of a non-empty set of entries, in the order of the list
FirstOf(occ) == CHOOSE n \in occ : \A m \in occ : n <= m

\* the Python index at which keyword number n first occurs in the text
FirstIndexOf(lower, n) ==
  CHOOSE i \in 0..Len(lower) :
    /\ OccursAt(lower, DISCIPLINE_MAP[n][1], i)
    /\ \A j \in 0..(i - 1) : ~OccursAt(lower, DISCIPLINE_MAP[n][1], j)

\* C9: map_discipline gives the discipline of the first keyword, in the order of the
\* keyword list, that occurs in the lowercased text, and "" for empty input or when no
\* keyword occurs; "NDE/UT inspection findings" gives "NDE".
C9_DisciplineByListOrder ==
  cpc = "return" =>
    LET occ == OccurringIn(Lower(raw))
    IN /\ discipline = (IF occ = {} THEN "" ELSE DISCIPLINE_MAP[FirstOf(occ)][2])
       /\ raw = <<>> => discipline = ""
       /\ raw = <<"N", "D", "E", "/", "U", "T", " ", "i", "n", "s", "p", "e", "c", "t", "i",
                  "o", "n", " ", "f", "i", "n", "d", "i", "n", "g", "s">> =>
            discipline = "NDE"

\* the keyword that decided occurs later in the text than another keyword, of another
\* discipline, that is later in the list; and the text is not all lowercase
C9_Witness ==
  /\ cpc = "return"
  /\ raw # Lower(raw)
  /\ LET lower == Lower(raw)
         occ == OccurringIn(lower)
     IN /\ occ # {}
        /\ discipline = DISCIPLINE_MAP[FirstOf(occ)][2]
        /\ \E m \in occ :
             /\ FirstIndexOf(lower, m) < FirstIndexOf(lower, FirstOf(occ))
             /\ DISCIPLINE_MAP[m][2] # discipline

----------------------------------------------------------------------------
(* Claims about parse_xlsx and parse_csv *)

\* the header row has just been read and resolved (col_map does not change afterwards)
Resolved == ipc = "rows" /\ row_i = 2

\* the same header row in another letter case, or with blanks around every cell
CaseVariants == {"upper", "lower", "padded"}

VariantCell(v, cell) ==
  IF cell = NoneCell THEN cell
  ELSE CASE v = "upper" -> Upper(cell)
         [] v = "lower" -> Lower(cell)
         [] OTHER -> <<" ">> \o cell \o <<" ", " ">>

Variant(v, header) == [n \in 1..Len(header) |-> VariantCell(v, header[n])]

\* the column map the importer of the kind computes for a header row
ColMapOfKind(k, header) ==
  IF k = "xlsx" THEN ColMap(XlsxFields, RawHeadersXlsx(header))
  ELSE ColMap(CsvFields, RawHeadersCsv(header))

\* C7: in both importers header resolution is case-insensitive and by substring: header
\* rows that differ only in letter case and in blanks around a cell give the same column
\* map, and the header "LL # (Auto)" resolves for the term "ll #".
C7_HeaderResolutionIgnoresCase ==
  Resolved =>
    /\ col_map = ColMapOfKind(kind, rows[1])
    /\ \A v \in CaseVariants : ColMapOfKind(kind, Variant(v, rows[1])) = col_map
    /\ rows[1][1] = <<"L", "L", " ", "#", " ", "(", "A", "u", "t", "o", ")">> => col_map.id = 0

\* a header row with capitals, "LL # (Auto)" first, has been resolved, the importer
\* finding the id, context and what_happened columns
C7_Witness ==
  /\ Resolved
  /\ rows[1][1] = <<"L", "L", " ", "#", " ", "(", "A", "u", "t", "o", ")">>
  /\ rows[1] # Variant("lower", rows[1])
  /\ col_map.id = 0 /\ col_map.context = 1 /\ col_map.what_happened = 2

\* C10: every record emitted by parse_xlsx or parse_csv has a non-empty title of at most
\* 100 characters and a non-empty description; a row that cannot have both is left out.
C10_EmittedRecordsHaveTitleAndDescription ==
  /\ \A n \in 1..Len(lessons) :
       /\ lessons[n].title # <<>>
       /\ Len(lessons[n].title) <= TitleMax
       /\ lessons[n].description # <<>>
  /\ row_i >= 2 => Len(lessons) <= row_i - 2

\* an import has returned a record whose title was cut to 100 characters, and has left
\* out another row
C10_Witness ==
  /\ ipc = "return"
  /\ error = NoError
  /\ Len(lessons) = 1
  /\ Len(rows) = 3
  /\ Len(lessons[1].title) = TitleMax

----------------------------------------------------------------------------
(* Claims about the records parse_xlsx and parse_csv build from a row *)

\* the importer is about to handle the data row rows[row_i]
AtRow == ipc = "rows" /\ row_i <= Len(rows)

\* the step that handles a data row, and the step that emits a record for it
RowStep == AtRow /\ row_i' = row_i + 1
EmitStep == RowStep /\ Len(lessons') = Len(lessons) + 1
SkipStep == RowStep /\ lessons' = lessons

\* the record the step has emitted
NewRecord == lessons'[Len(lessons')]

\* the value the importer of the kind reads from row n of the file for a canonical
\* field, and the value it reads from the row it is about to handle
CellOf(n, key) ==
  IF kind = "xlsx" THEN GetXlsx(col_map, rows[n], key)
  ELSE GetCsv(col_map, rows[n], key)
Cell(key) == CellOf(row_i, key)

\* the part of a text before its first period, exclamation mark or newline, trimmed
FirstSentence(s) ==
  LET ends == {i \in 1..Len(s) : s[i] \in {".", "!", NL}}
  IN Strip(IF ends = {} THEN s
           ELSE SubSeq(s, 1, (CHOOSE h \in ends : \A g \in ends : h <= g) - 1))

\* a text of more than TitleMax characters cut to TitleMax, the ellipsis included
CutWithEllipsis(t) ==
  IF Len(t) > TitleMax THEN SubSeq(t, 1, TitleMax - Len(Ellipsis)) \o Ellipsis ELSE t

\* the title as the claim derives it
ClaimedTitle(context, what_happened) ==
  IF CutWithEllipsis(FirstSentence(context)) # <<>>
    THEN CutWithEllipsis(FirstSentence(context))
    ELSE CutWithEllipsis(FirstSentence(what_happened))

\* C11: in both importers the title of an emitted record is the first sentence of context
\* (up to the first period, exclamation mark or newline), trimmed, cut to 100 characters
\* with a trailing ellipsis when longer; when that is empty, the same of what_happened.
C11_TitleIsFirstSentenceWithEllipsis ==
  [][EmitStep => NewRecord.title = ClaimedTitle(Cell("context"), Cell("what_happened"))]_vars

\* the label of the what-happened block, without the blank line before it
HappenedLabel == <<"W", "h", "a", "t", " ", "h", "a", "p", "p", "e", "n", "e", "d", ":", " ">>

\* the what-worked text the tabular importer appends, after a blank line
WorkedBlock ==
  IF kind = "xlsx" /\ Cell("worked_didnt") # <<>>
    THEN <<NL, NL>> \o Cell("worked_didnt") ELSE <<>>

\* C12 as claimed: the description of an emitted record starts with context and, whenever
\* what_happened is non-empty and differs from context (also when context is empty), holds
\* the block "What happened: <what_happened>"; the tabular importer alone appends the
\* what-worked text.
C12_WhatHappenedAlwaysLabelled ==
  [][EmitStep =>
       LET c == Cell("context")
           w == Cell("what_happened")
           d == NewRecord.description
       IN /\ StartsWith(d, c)
          /\ (w # <<>> /\ w # c) => Contains(d, HappenedLabel \o w)
          /\ Len(WorkedBlock) <= Len(d)
          /\ SubSeq(d, Len(d) - Len(WorkedBlock) + 1, Len(d)) = WorkedBlock]_vars

\* C12 amended: the description of an emitted record is context, followed, when
\* what_happened is non-empty and differs from context, by a blank line and the block
\* "What happened: <what_happened>" if context is non-empty, and being what_happened
\* itself, without the label, if context is empty; the tabular importer alone appends a
\* blank line and the what-worked text when that column is non-empty.
C12_DescriptionLabelsOnlyAfterContext ==
  [][EmitStep =>
       LET c == Cell("context")
           w == Cell("what_happened")
           differs == w # <<>> /\ w # c
           main == IF ~differs THEN c
                   ELSE IF c = <<>> THEN w
                   ELSE c \o <<NL, NL>> \o HappenedLabel \o w
       IN NewRecord.description = main \o WorkedBlock]_vars

\* an import of a one-row file has returned a record for a row with an empty context: its
\* description is what_happened, without the label
C12_Witness ==
  /\ ipc = "return"
  /\ Len(rows) = 2
  /\ Len(lessons) = 1
  /\ CellOf(2, "context") = <<>>
  /\ CellOf(2, "what_happened") # <<>>
  /\ lessons[1].description = CellOf(2, "what_happened")
  /\ ~Contains(lessons[1].description, HappenedLabel)

\* the tags the claim lets the tabular importer add to the keywords
ClaimedTags ==
  IF kind # "xlsx" THEN <<>>
  ELSE (IF Cell("logged_by") # <<>>
          THEN <<<<"l", "o", "g", "g", "e", "d", " ", "b", "y", ":", " ">> \o Cell("logged_by")>>
          ELSE <<>>)
       \o (IF Cell("status") # <<>>
             THEN <<<<"s", "t", "a", "t", "u", "s", ":", " ">> \o Cell("status")>>
             ELSE <<>>)

\* C13: in both importers the keywords of an emitted record are the non-empty ones of the
\* keywords column and the category column, joined with ", "; the tabular importer adds
\* only the tags "logged by: X" and "status: Y" for non-empty columns.
C13_KeywordsJoinKeywordsAndCategory ==
  [][EmitStep =>
       NewRecord.keywords =
         Join(<<",", " ">>,
              NonEmpty(<<Cell("keywords"), Cell("category")>> \o ClaimedTags))]_vars

\* C14 as claimed: the discipline of an emitted record is map_discipline of the discipline
\* column when the header map has a discipline column, and of the category column
\* otherwise; the severity is map_severity of the impact column.
C14_DisciplineColumnWhenPresent ==
  [][EmitStep =>
       /\ NewRecord.discipline =
            map_discipline(IF col_map.discipline >= 0 THEN Cell("discipline")
                           ELSE Cell("category"))
       /\ NewRecord.severity = map_severity(Cell("impact"))]_vars

\* C14 amended: the discipline of an emitted record is map_discipline of the row's
\* discipline cell when that cell is non-empty, and of the row's category cell otherwise
\* (a missing column reads as empty); the severity is map_severity of the impact cell.
C14_DisciplineCellWhenNonEmpty ==
  [][EmitStep =>
       /\ NewRecord.discipline =
            map_discipline(IF Cell("discipline") # <<>> THEN Cell("discipline")
                           ELSE Cell("category"))
       /\ NewRecord.severity = map_severity(Cell("impact"))]_vars

\* an import of a one-row file has returned a record for a row whose discipline cell is
\* empty, the column being there: its discipline comes from the category cell
C14_Witness ==
  /\ ipc = "return"
  /\ Len(rows) = 2
  /\ Len(lessons) = 1
  /\ col_map.discipline >= 0 /\ col_map.category >= 0
  /\ CellOf(2, "discipline") = <<>>
  /\ lessons[1].discipline = "Coatings"
  /\ lessons[1].discipline = map_discipline(CellOf(2, "category"))

\* the cell of row n in the column resolved for a field is missing, null or blank
BlankCell(n, key) ==
  \/ col_map[key] < 0
  \/ col_map[key] >= Len(rows[n])
  \/ rows[n][col_map[key] + 1] = NoneCell
  \/ Strip(rows[n][col_map[key] + 1]) = <<>>

\* row n of the file has an empty context and an empty what_happened
BlankRow(n) == BlankCell(n, "context") /\ BlankCell(n, "what_happened")

\* C15: a file whose data rows all have an empty context and an empty what_happened is
\* imported to no record and no error; and a row with both empty is skipped by itself:
\* the importer emits nothing for it and goes on with the next row.
C15_BlankRowsSkippedWithoutError ==
  /\ [](ipc = "return" /\ Len(rows) >= 2 /\ (\A n \in 2..Len(rows) : BlankRow(n))
          => lessons = NoRecords /\ error = NoError)
  /\ [][AtRow /\ BlankRow(row_i)
          => /\ lessons' = lessons
             /\ row_i' = row_i + 1
             /\ ipc' = "rows"
             /\ error' = error]_vars

\* an import has returned no record and no error for a file of two blank data rows
C15_Witness ==
  /\ ipc = "return"
  /\ Len(rows) = 3
  /\ BlankRow(2) /\ BlankRow(3)
  /\ col_map.context >= 0 /\ col_map.what_happened >= 0
  /\ lessons = NoRecords
  /\ error = NoError

\* a message that says what is wrong with the file
Descriptive(msg) ==
  /\ msg \notin {NoError, NotReturned, <<>>}
  /\ Contains(msg, <<"n", "o", " ", "d", "a", "t", "a", " ", "r", "o", "w", "s">>)

\* C16: a file of fewer than 2 rows in all (none, or a header row alone) makes parse_xlsx
\* and parse_csv return no record together with a non-empty descriptive message; the call
\* returns at once, nothing of the missing rows being read.
C16_TooFewRowsGiveErrorMessage ==
  /\ [](ipc = "return" /\ Len(rows) < 2 => lessons = NoRecords /\ Descriptive(error))
  /\ [][ipc = "call" /\ Len(rows') < 2
          => ipc' = "return" /\ lessons' = NoRecords /\ Descriptive(error')]_vars

\* parse_xlsx has returned for a worksheet of a header row alone: no record, and the
\* message that names the worksheet
C16_Witness ==
  /\ ipc = "return"
  /\ kind = "xlsx"
  /\ Len(rows) = 1
  /\ lessons = NoRecords
  /\ error = SheetError(wb[sheet].title)

----------------------------------------------------------------------------
(* Claims about the importers and the Lesson model *)

\* C17: every record emitted by either importer has a discipline that is empty or one of
\* Lesson.DISCIPLINE_CHOICES and a severity that is one of Critical, High, Medium, Low;
\* no entry of DISCIPLINE_MAP or SEVERITY_KEYWORDS names any other value.
C17_RecordsUseModelChoices ==
  /\ \A n \in 1..Len(lessons) :
       /\ lessons[n].discipline \in DISCIPLINE_CHOICES \cup {""}
       /\ lessons[n].severity \in SEVERITY_CHOICES
  /\ \A n \in 1..Len(DISCIPLINE_MAP) : DISCIPLINE_MAP[n][2] \in DISCIPLINE_CHOICES
  /\ \A n \in 1..Len(SEVERITY_KEYWORDS) : SEVERITY_KEYWORDS[n][1] \in SEVERITY_CHOICES

\* an import has returned a record with a mapped discipline and a keyword severity and a
\* record with no discipline and the default severity
C17_Witness ==
  /\ ipc = "return"
  /\ Len(lessons) = 2
  /\ lessons[1].discipline = "Welding" /\ lessons[1].severity = "High"
  /\ lessons[2].discipline = "" /\ lessons[2].severity = "Medium"
  /\ lessons[2].impact = <<>>

\* the word occurs in the name, whatever the case of the name's letters
NameHolds(name, word) ==
  \E i \in 1..(Len(name) - Len(word) + 1) :
    Lower(SubSeq(name, i, i + Len(word) - 1)) = word

\* the positions of the worksheets of lessons in the workbook
LessonSheets ==
  { k \in 1..Len(wb) :
      \/ NameHolds(wb[k].title, <<"l", "e", "s", "s", "o", "n">>)
      \/ NameHolds(wb[k].title, <<"e", "x", "p", "e", "r", "i", "e", "n", "c", "e">>) }

\* C18: parse_xlsx reads the first worksheet, in workbook order, whose name contains
\* "lesson" or "experience" in any letter case, and the workbook's first worksheet when no
\* name does; the rows it works on are those of that one worksheet.
C18_FirstLessonSheetElseFirstSheet ==
  (kind = "xlsx" /\ ipc # "call") =>
    /\ sheet \in 1..Len(wb)
    /\ LessonSheets = {} => sheet = 1
    /\ LessonSheets # {} => sheet \in LessonSheets /\ \A k \in LessonSheets : sheet <= k
    /\ rows = wb[sheet].rows
    /\ Len(lessons) <= Len(wb[sheet].rows)

\* parse_xlsx has returned the record of the second of three worksheets: the first name
\* holds neither word, the second holds "EXPERIENCE", the third "lessons"
C18_Witness ==
  /\ kind = "xlsx" /\ ipc = "return"
  /\ Len(wb) = 3
  /\ LessonSheets = {2, 3}
  /\ wb[2].title = <<"E", "X", "P", "E", "R", "I", "E", "N", "C", "E", " ", "l", "o", "g">>
  /\ sheet = 2
  /\ Len(lessons) = 1
  /\ lessons[1].title = LongText(2)

\* a cell as the claim has it used: null and the placeholder texts as the empty text,
\* anything else trimmed
NormalCell(cell) ==
  IF cell = NoneCell THEN <<>>
  ELSE IF Lower(Strip(cell)) \in { <<"n", "o", "n", "e">>, <<"n", "a", "n">>, <<"n", "a", "t">> }
    THEN <<>>
  ELSE Strip(cell)

\* the cell of the row being handled in the column resolved for a field; empty if missing
RawCell(key) ==
  IF col_map[key] < 0 \/ col_map[key] >= Len(rows[row_i]) THEN <<>>
  ELSE rows[row_i][col_map[key] + 1]

\* C19: in both importers every header cell and every data cell is used trimmed, with null
\* and the placeholder texts "none", "nan", "nat" (in any letter case) read as the empty
\* text; so a row whose context and what_happened hold only such placeholders is skipped.
C19_CellsNormalisedInBothImporters ==
  /\ [](ipc \in {"rows", "return"} /\ Len(rows) >= 2
          => raw_headers = [n \in 1..Len(rows[1]) |-> Lower(NormalCell(rows[1][n]))])
  /\ [][RowStep =>
          /\ \A key \in DOMAIN col_map : Cell(key) = NormalCell(RawCell(key))
          /\ (NormalCell(RawCell("context")) = <<>>
                /\ NormalCell(RawCell("what_happened")) = <<>>) => lessons' = lessons]_vars

----------------------------------------------------------------------------
(* Claims about _call_anthropic *)

\* the blocks of the response body, and the positions of its text blocks
Blocks == IF data.has_content THEN data.content ELSE <<>>
TextAt == {k \in 1..Len(Blocks) : Blocks[k].type = "text"}

\* the characters the texts of the text blocks at the positions S take, each with the
\* newline after it
RECURSIVE Room(_)
Room(S) ==
  IF S = {} THEN 0
  ELSE LET k == CHOOSE j \in S : TRUE
       IN Len(Blocks[k].text) + 1 + Room(S \ {k})

\* where the text of the text block at position k starts in the reply (a Python index)
StartOf(k) == Room({j \in TextAt : j < k})

\* C20: the returned text is made of the contents of exactly the blocks of type "text", in
\* their order, with one newline between two of them and nothing else: every text is found
\* at the place the texts before it leave, a block of another type takes no room, and
\* without a text block the text is empty.
C20_ReplyIsTextBlocksJoinedByNewline ==
  apc = "return" =>
    /\ ~reply.raised
    /\ TextAt = {} => reply.text = <<>>
    /\ TextAt # {} => Len(reply.text) = Room(TextAt) - 1
    /\ \A k \in TextAt :
         /\ SubSeq(reply.text, StartOf(k) + 1, StartOf(k) + Len(Blocks[k].text))
              = Blocks[k].text
         /\ StartOf(k) > 0 => reply.text[StartOf(k)] = NL

\* a call has returned the texts of the first and the third block, a block of another
\* type between them
C20_Witness ==
  /\ apc = "return"
  /\ Len(Blocks) = 3
  /\ TextAt = {1, 3}
  /\ Blocks[2].type = "thinking"
  /\ Blocks[1].text = <<"a", NL, "b">> /\ Blocks[3].text = <<"o", "k">>
  /\ reply.text = <<"a", NL, "b", NL, "o", "k">>

----------------------------------------------------------------------------
(* Claims about the walk-back of _parse_json_response *)

\* the Python indices of the closing braces of the text under repair
ClosingBraces == {p \in 0..(Len(repaired) - 1) : repaired[p + 1] = "}"}

\* the closing braces before index p
BracesBefore(p) == {q \in ClosingBraces : q < p}

\* truncating after index p and appending "]}" parses
ParsesAt(p) == Loads(Candidate(repaired, p)).ok

\* one turn of the loop: a failed attempt, or the attempt that is accepted
FailedAttempt == pc = "walk" /\ pos > 0 /\ pc' = "walk"
Accepted == pc = "walk" /\ pc' = "return_walk"

\* C30: the backward scan over the closing braces terminates: after a failed
\* attempt the candidate position is the nearest earlier closing brace (so it
\* strictly decreases) or -1 when there is none, the scan stops once no earlier
\* closing brace exists, and the position it accepts is the rightmost closing
\* brace at which truncating and appending "]}" parses.
C30_WalkBackDecreasesAndAcceptsRightmost ==
  [][/\ FailedAttempt =>
          /\ pos' < pos
          /\ ~ParsesAt(pos)
          /\ IF BracesBefore(pos) = {} THEN pos' = -1
             ELSE pos' \in BracesBefore(pos) /\ \A q \in BracesBefore(pos) : q <= pos'
     /\ (pc = "walk" /\ pos <= 0) => pc' = "generic"
     /\ (pc = "walk" /\ pos > 0) => pos \in ClosingBraces
     /\ Accepted =>
          /\ ParsesAt(pos)
          /\ \A q \in {p \in 1..(Len(repaired) - 1) : repaired[p + 1] = "}"} :
               ParsesAt(q) => q <= pos
          /\ result' = Loads(Candidate(repaired, pos)).val]_vars

\* the scan was accepted at a closing brace before the last one
C30_Witness ==
  /\ pc = "return_walk"
  /\ pos > 0
  /\ pos < RFind(clean, "}", Len(clean))

\* the scan ran out of closing braces
C30_WitnessExhausted == pc = "generic" /\ pos = -1

----------------------------------------------------------------------------
(* Claims about parse_csv against parse_xlsx *)

\* the columns only parse_xlsx looks for
TabularOnly == {"worked_didnt", "assigned_to", "docs"}

\* the header row names one of the tabular-only columns
UsesTabularOnly(header) ==
  \E f \in TabularOnly : ColMap(XlsxFields, RawHeadersXlsx(header))[f] >= 0

\* the records parse_xlsx emits for a sheet holding the rows of the file
LessonsOfXlsx(file) ==
  LET cm == ColMap(XlsxFields, RawHeadersXlsx(file[1]))
      emitted(row) == XlsxRecord(cm, row).emit
      kept == SelectSeq(Tail(file), emitted)
  IN [n \in 1..Len(kept) |-> XlsxRecord(cm, kept[n]).rec]

ComparedFields == {"title", "description", "discipline", "severity", "keywords"}

\* parse_csv has returned the records of a file without a tabular-only column
CsvReturned ==
  /\ kind = "csv" /\ ipc = "return" /\ error = NoError
  /\ ~UsesTabularOnly(rows[1])

\* C27: on a header row and data cells that use none of the tabular-only
\* columns, parse_csv emits as many records as parse_xlsx does on the same
\* rows, in the same order, each with the same title, description,
\* discipline, severity and keywords.
C27_CsvEmitsWhatXlsxEmits ==
  CsvReturned =>
    /\ Len(lessons) = Len(LessonsOfXlsx(rows))
    /\ \A n \in 1..Len(lessons) : \A f \in ComparedFields :
         lessons[n][f] = LessonsOfXlsx(rows)[n][f]

----------------------------------------------------------------------------
(* Claims about the orchestrator: analyze_sow, generate_deliverable, the views *)

\* the function of ai.py called for request r has returned or raised
Came(r) == content[r].raised # "<unset>"

\* the text-generation call of request r gave a text and the recovery parser
\* made the failure marker of it
MarkerCase(r) ==
  /\ Came(r)
  /\ outcome[r].kind = "text"
  /\ parse_json_response(outcome[r].text) = ErrorMarker

\* a mapping with status "error" and the parser's human-readable message
IsErrorDeliverable(v) ==
  /\ HasKey(v, status_key) /\ DictGet(v, status_key) = JStr(error_key)
  /\ HasKey(v, message_key) /\ DictGet(v, message_key) = DictGet(ErrorMarker, error_key)

\* C21 as claimed: whenever the recovery parser yields the failure marker, the
\* entry point that made the call (analyze_sow or a generator) returns a
\* result with status "error" and the message, and raises no exception.
C21_MarkerBecomesErrorDeliverable ==
  \A r \in Requests :
    MarkerCase(r) => content[r].raised = "" /\ IsErrorDeliverable(content[r].value)

\* C21 amended: on the failure marker no entry point raises; the two
\* generators return a result with status "error" and the message, and
\* analyze_sow returns the failure marker itself, whose only key "error"
\* carries the message.
C21_MarkerBecomesErrorDeliverableOrIsReturned ==
  \A r \in Requests :
    MarkerCase(r) =>
      /\ content[r].raised = ""
      /\ IF request[r].view = "analyze_sow"
           THEN /\ content[r].value = ErrorMarker
                /\ content[r].value.k = <<error_key>>
           ELSE IsErrorDeliverable(content[r].value)

\* a generator and analyze_sow have both come back from a failure marker
C21_Witness ==
  /\ MarkerCase("r1") /\ request["r1"].view = "generate_deliverable"
  /\ MarkerCase("r2") /\ request["r2"].view = "analyze_sow"

\* the four names of the claim
RegisteredNames == {risk_register, staffing_estimate, spec_gaps, executive_narrative}

\* a deliverable request for an analysis, with a type that is not registered
UnregisteredRequest(r) ==
  /\ request[r].view = "generate_deliverable"
  /\ request[r].target # "missing"
  /\ request[r].deliverable_type \notin RegisteredNames

\* C22: a deliverable request whose type is not one of the four registered
\* names is rejected with an error before any text-generation call is made
\* and before anything is persisted (no post, no function of ai.py called, no
\* write to the analyses by any step of the request), and the names the view
\* accepts are exactly the names the dispatcher dispatches.
C22_UnregisteredTypeRejectedBeforeCallAndStore ==
  /\ [](/\ DELIVERABLE_TYPES = DOMAIN generators
        /\ \A r \in Requests :
             UnregisteredRequest(r) =>
               /\ posts[r] = 0
               /\ ~Came(r)
               /\ spc[r] \in {"received", "done"}
               /\ spc[r] = "done" => response[r].error /\ response[r].status = 400)
  /\ [][\A r \in Requests :
          UnregisteredRequest(r) /\ spc'[r] # spc[r] => analyses' = analyses]_vars

\* a request for an unregistered type has been answered while the other
\* request made its call
C22_Witness ==
  /\ UnregisteredRequest("r1") /\ request["r1"].target = "own"
  /\ spc["r1"] = "done" /\ response["r1"].status = 400
  /\ posts["r2"] = 1

\* the text-generation call of request r returned a non-success status or timed out
CallFailed(r) == outcome[r].kind \in {"status", "timeout"}

\* C23: when the text-generation call returns a non-success status or times
\* out, the failure reaches the view as an exception and the view answers
\* with an error payload; the step that answers creates no SOWAnalysis and
\* stores no deliverable, and the request is never answered as a success.
C23_CallFailureAnsweredAsError ==
  /\ [](\A r \in Requests :
          CallFailed(r) =>
            /\ content[r].raised # ""
            /\ spc[r] \in {"handle", "done"}
            /\ spc[r] = "done" =>
                 /\ response[r].error
                 /\ response[r].status # 200
                 /\ response[r].body = NoResult)
  /\ [][\A r \in Requests :
          CallFailed(r) /\ spc'[r] # spc[r] => analyses' = analyses]_vars

\* both views have answered a failed call
C23_Witness ==
  /\ CallFailed("r1") /\ request["r1"].view = "analyze_sow" /\ spc["r1"] = "done"
  /\ CallFailed("r2") /\ request["r2"].view = "generate_deliverable" /\ spc["r2"] = "done"
  /\ outcome["r1"].kind # outcome["r2"].kind

\* C26: one invocation of analyze_sow or of generate_deliverable posts to the
\* text-generation service at most once, and after a failed call (no key, a
\* non-success status, a timeout) it makes no further call: the exception is
\* what the invocation comes back with.
C26_AtMostOnePostAndNoRetry ==
  /\ [](\A r \in Requests :
          /\ posts[r] <= 1
          /\ outcome[r].kind \in {"no_key", "status", "timeout"} =>
               Came(r) /\ content[r].raised # "")
  /\ [][\A r \in Requests :
          outcome[r].kind # "none" => posts'[r] = posts[r] /\ outcome'[r] = outcome[r]]_vars

\* an invocation of each entry point is over after a failed post
C26_Witness ==
  /\ CallFailed("r1") /\ request["r1"].view = "analyze_sow"
  /\ CallFailed("r2") /\ request["r2"].deliverable_type = staffing_estimate
  /\ posts["r1"] = 1 /\ posts["r2"] = 1
  /\ spc["r1"] = "done" /\ spc["r2"] = "done"

\* request r is for a generator that makes a text-generation call, the call
\* gave a text, and the generator has come back
GeneratorCame(r) ==
  /\ request[r].view = "generate_deliverable"
  /\ request[r].deliverable_type \in {risk_register, staffing_estimate}
  /\ outcome[r].kind = "text"
  /\ Came(r)

\* neither the strict parse nor a repair of the text parsed
RecoveryFailed(t) == ~Loads(Clean(t)).ok /\ parse_json_response(t) = ErrorMarker

\* C28: for every response text the risk_register and staffing_estimate
\* generators return a mapping with the key "title": a text whose top level
\* is not an object does not make them raise, and the mapping has status
\* "error" only when the recovery of the text failed.
C28_GeneratorAlwaysReturnsTitledMapping ==
  \A r \in Requests :
    GeneratorCame(r) =>
      /\ content[r].raised = ""
      /\ HasKey(content[r].value, title_key)
      /\ (HasKey(content[r].value, status_key)
            /\ DictGet(content[r].value, status_key) = JStr(error_key))
           => RecoveryFailed(outcome[r].text)

\* request r was a deliverable request that was answered with its deliverable
Delivered(r) ==
  /\ request[r].view = "generate_deliverable"
  /\ spc[r] = "done"
  /\ response[r].status = 200

\* the persisted results of the analysis hold a deliverable of the type
Persisted(deliverable_type) ==
  /\ HasKey(analyses[TheAnalysis], deliverables_key)
  /\ HasKey(DictGet(analyses[TheAnalysis], deliverables_key), deliverable_type)

\* C24: when two generate_deliverable requests for the same analysis with
\* different deliverable types have run concurrently, in any interleaving,
\* and both have completed, the persisted results of the analysis hold both
\* deliverables.
C24_ConcurrentDeliverablesBothPersisted ==
  (/\ Delivered("r1") /\ Delivered("r2")
   /\ request["r1"].deliverable_type # request["r2"].deliverable_type)
    => /\ Persisted(request["r1"].deliverable_type)
       /\ Persisted(request["r2"].deliverable_type)

----------------------------------------------------------------------------
(* Claims about LessonViewSet.import_file *)

\* the request came with an organization of the user and a file
WellFormedUpload == upload.organization = "own" /\ upload.file

\* the response is a structured error payload carrying a message
IsErrorPayload == answer.status = 400 /\ answer.error # <<>> /\ answer.imported = -1

\* C25: an import request with an unsupported file extension, with a parser
\* error (no data rows) or with zero usable records is answered with an error
\* payload carrying a message and creates no Lesson; a successful import
\* creates exactly one Lesson per parsed record, in order.
C25_ImportErrorsCreateNothingSuccessCreatesAll ==
  (upc = "done" /\ WellFormedUpload) =>
    /\ Extension(upload.name) \notin XlsxExtensions \cup CsvExtensions =>
         IsErrorPayload /\ lesson_table = <<>>
    /\ error \notin {NoError, NotReturned} =>
         IsErrorPayload /\ answer.error = error /\ lesson_table = <<>>
    /\ (error = NoError /\ lessons = <<>>) =>
         IsErrorPayload /\ lesson_table = <<>>
    /\ answer.status = 200 =>
         /\ Len(lesson_table) = Len(lessons)
         /\ \A n \in 1..Len(lessons) : lesson_table[n].data = lessons[n]
         /\ \A n, m \in 1..Len(lessons) : lesson_table[n].id = lesson_table[m].id => n = m
         /\ answer.imported = Len(lessons)

\* a file of two usable records has been imported
C25_Witness ==
  /\ upc = "done" /\ answer.status = 200
  /\ Len(lesson_table) = 2
  /\ lesson_table[1].data # lesson_table[2].data

\* each of the three rejections has happened
C25_WitnessUnsupported ==
  upc = "done" /\ WellFormedUpload /\ Extension(upload.name) = <<"z", "i", "p">> /\ IsErrorPayload
C25_WitnessNoRows == upc = "done" /\ error = CsvError /\ IsErrorPayload
C25_WitnessNoRecords ==
  upc = "done" /\ error = NoError /\ lessons = <<>> /\ Len(rows) = 3 /\ IsErrorPayload

----------------------------------------------------------------------------
(* C29 *)

\* the request r takes a step
Acts(r) == bpc'[r] # bpc[r]

\* the rows a step removes from the table
Removed == {lesson_table[n] : n \in 1..Len(lesson_table)} \ {lesson_table'[n] : n \in 1..Len(lesson_table')}

\* the rows of the table whose id is in S
RowsWithId(S) == {lesson_table[n] : n \in {k \in 1..Len(lesson_table) : lesson_table[k].id \in S}}

\* a requested id that is not the id of a lesson of one of the user's organizations
HasForeignOrAbsentId(r) ==
  \E i \in IdSet(bulk[r].ids) :
    \A row \in RowsWithId({i}) : OrgOwner[row.organization] # bulk[r].user

\* the request came with a non-empty list of ids
ListGiven(r) == bulk[r].ids.is_list /\ bulk[r].ids.items # <<>>

\* C29: bulk deletion is all or nothing. A request without a non-empty list
\* of ids is answered 400 and deletes nothing. When the view checks a request whose
\* list holds an id that is of no lesson, or of a lesson of another user's
\* organization, it answers 403 and the request never deletes anything; in the
\* other case the request deletes exactly the lessons with the requested ids,
\* all of them the user's own; and no step of a request removes a lesson of
\* another user.
C29_BulkDeleteAllOrNothing ==
  /\ [][\A r \in BulkRequests :
          Acts(r) =>
            /\ \A row \in Removed : OrgOwner[row.organization] = bulk[r].user
            /\ (bpc[r] = "received" /\ ~ListGiven(r)) =>
                 /\ lesson_table' = lesson_table
                 /\ bulk_reply'[r].status = 400 /\ bpc'[r] = "done"
            /\ (bpc[r] = "received" /\ ListGiven(r)) =>
                 /\ lesson_table' = lesson_table
                 /\ IF HasForeignOrAbsentId(r)
                      THEN bulk_reply'[r].status = 403 /\ bpc'[r] = "done"
                      ELSE bpc'[r] = "count"
            /\ bpc[r] = "delete" =>
                 /\ Removed = RowsWithId(IdSet(bulk[r].ids))
                 /\ bulk_reply'[r].status = 200]_vars
  /\ [](\A r \in DOMAIN bulk_reply :
          bulk_reply[r].status = 403 => bpc[r] = "done" /\ count[r] = -1)

\* one request was refused with 403 and the table is whole, while the other
\* deleted two lessons and a lesson of the other user is still there
C29_Witness ==
  /\ bpc # <<>>
  /\ bulk_reply["b1"].status = 403
  /\ bulk_reply["b2"].status = 200
  /\ bulk_reply["b2"].deleted = 1
  /\ Len(lesson_table) = 1
  /\ OrgOwner[lesson_table[1].organization] # bulk["b2"].user
  /\ lesson_table[1].id \in IdSet(bulk["b1"].ids)

====
